---------------------------- MODULE Spec2Model ----------------------------
(***************************************************************************)
(* Unstructured peer-to-peer overlay: flooding, random walk and depth-first *)
(* search over a neighbour graph.  The repository holds several rewrites   *)
(* of the same node; two of them are modelled here side by side:           *)
(*   PeerNode  (src/peernode.py, with src/message.py)                      *)
(*   Peer      (src/main.py, with its own Packet class)                    *)
(* The variable impl says which of the two every node of a run executes.   *)
(*                                                                         *)
(* A node's address is (ip, port).  All nodes of a run live on one host,   *)
(* so an address is identified with its port, a number in Nodes; None is   *)
(* Python's None.  A handler is one action: between two awaits a coroutine *)
(* runs alone on its node's event loop, and every state change of the      *)
(* search handlers happens before their first transmit.  transmit puts the *)
(* message into net, from where the receiving node's processing task takes *)
(* it in any order (the acknowledgement is written by the connection       *)
(* handler, independently of processing).                                  *)
(***************************************************************************)
EXTENDS Integers, Sequences, FiniteSets, Bags, TLC

\* Bounds of the model.
NumNodes == 3
MaxTTL == 3
MaxSearches == 1
MaxRepeats == 1
MaxDepthRepeats == 2
MaxHellos == 2
MaxConns == 2
MaxTasks == 2
MaxConcurrent == 2
MaxArgs == 2

\* Program constants.
DefaultTTL == 100
FirstSeqno == 1
ReplyTTL == 1
FirstHop == 1

Nodes == 1 .. NumNodes
\* Python's None, where an address is expected
None == 0
\* the keys searched for, and the value a store holds under a key
SearchKeys == {7}
StoredValue(key) == key + 1
Impls == {"PeerNode", "Peer"}
Modes == {"FL", "RW", "BP"}

VARIABLES
    impl,           \* "PeerNode" or "Peer": the rewrite every node runs
    neighbours,     \* neighbours[n]: the neighbour table, a list of addresses
    keys,           \* keys[n]: the local key -> value store
    seqno,          \* seqno[n]: the next sequence number
    default_ttl,    \* default_ttl[n]
    seen_messages,  \* seen_messages[n]: dedup keys (Peer: processed)
    parent_node,    \* depth-first session (Peer: parent)
    candidates,     \*                     (Peer: unexplored)
    active_node,    \*                     (Peer: current)
    stats,          \* stats[n]: per-mode seen counters and hop samples
    net,            \* bag of messages transmitted and not yet processed
    out,            \* what the last handler printed and transmitted
    wire,           \* history: bag of every transmission made, with its sender
    started,        \* history: number of searches originated
    exited,         \* the nodes that said BYE and ended their process
    conns,          \* conns[n]: the inbound connections, each with its handler
    tasks,          \* tasks[n]: the processing tasks run statement by statement
    running,        \* running[n]: the coroutine the node's event loop is running
    call            \* the function applied last: its name, argument and result

\* what the search handlers and the search originations never write
loop == <<conns, tasks, running>>
config == <<impl, neighbours, keys, default_ttl, exited, loop, call>>
session == <<parent_node, candidates, active_node>>
vars == <<impl, neighbours, keys, seqno, default_ttl, seen_messages,
          parent_node, candidates, active_node, stats, net, out, wire, started,
          exited, conns, tasks, running, call>>

-----------------------------------------------------------------------------
(* Python list helpers *)

\* list.remove(x): drops the first occurrence; the callers guard x in list
RECURSIVE ListRemove(_, _)
ListRemove(s, x) ==
    IF s = <<>> THEN <<>>
    ELSE IF Head(s) = x THEN Tail(s)
    ELSE <<Head(s)>> \o ListRemove(Tail(s), x)

Contains(s, x) == \E i \in 1 .. Len(s) : s[i] = x

\* list.pop(): the last element, and the list without it
Last(s) == s[Len(s)]
ButLast(s) == SubSeq(s, 1, Len(s) - 1)

Range(s) == {s[i] : i \in 1 .. Len(s)}

-----------------------------------------------------------------------------
(* Wire message: src/message.py Message, src/main.py Packet *)

\* "<origin> <seqno> <ttl> SEARCH <mode> <port> <key> <hop>"
SearchMessage(origin, seq, ttl, mode, port, key, hop) ==
    [origin |-> origin, seqno |-> seq, ttl |-> ttl, operation |-> "SEARCH",
     args |-> <<mode, port, key, hop>>]

\* "<origin> <seqno> 1 VAL <mode> <key> <value> <hop>"
ValMessage(origin, seq, mode, key, value, hop) ==
    [origin |-> origin, seqno |-> seq, ttl |-> ReplyTTL, operation |-> "VAL",
     args |-> <<mode, key, value, hop>>]

\* a key of origin, seqno and operation alone
unique_tuple_without_mode(m) == <<m.origin, m.seqno, <<m.operation>>>>

\* the third component stands for the string "SEARCH_<mode>", or the operation
to_unique_tuple(m) ==
    IF m.operation = "SEARCH"
    THEN <<m.origin, m.seqno, <<m.operation, m.args[1]>>>>
    ELSE <<m.origin, m.seqno, <<m.operation>>>>

\* a forward that leaves the hop-count as it was
ForwardKeepingHop(m, new_last_hop) ==
    [m EXCEPT !.ttl = m.ttl - 1,
              !.args = <<m.args[1], new_last_hop, m.args[3], m.args[4]>>]

\* a forward that leaves the ttl as it was
ForwardKeepingTTL(m, new_last_hop) ==
    [m EXCEPT !.args = <<m.args[1], new_last_hop, m.args[3], m.args[4] + 1>>]

forward_message(m, new_last_hop) ==
    [m EXCEPT !.ttl = m.ttl - 1,
              !.args = <<m.args[1], new_last_hop, m.args[3], m.args[4] + 1>>]

\* an expiry test that lets a TTL of zero through
ExpiredBelowZero(m) == m.ttl < 0

is_ttl_expired(m) == m.ttl <= 0

has_key(n, key) == key \in DOMAIN keys[n]

NoMessage ==
    [origin |-> None, seqno |-> 0, ttl |-> 0, operation |-> "NONE", args |-> <<>>]

\* "<origin> <seqno> 1 HELLO" and "<origin> <seqno> 1 BYE"
ControlMessage(origin, seq, operation) ==
    [origin |-> origin, seqno |-> seq, ttl |-> ReplyTTL, operation |-> operation,
     args |-> <<>>]

\* "<origin> <seqno> 1 <OP>_OK"
Ack(operation) ==
    CASE operation = "HELLO" -> "HELLO_OK"
      [] operation = "SEARCH" -> "SEARCH_OK"
      [] operation = "VAL" -> "VAL_OK"
      [] operation = "BYE" -> "BYE_OK"
      [] operation = "PING" -> "PING_OK"
      [] OTHER -> "NONE"

create_response(m) ==
    [origin |-> m.origin, seqno |-> m.seqno, ttl |-> ReplyTTL,
     operation |-> Ack(m.operation), args |-> <<>>]

\* a connection whose line is given as the message it spells
NoLine == <<<<>>>>

\* an inbound connection nobody opened yet, and a processing task never created
NoConnection ==
    [msg |-> NoMessage, pc |-> "free", reply |-> NoMessage, task |-> "none",
     line |-> NoLine]
NoTask == [msg |-> NoMessage, pc |-> "free", signal |-> "none", pkts |-> <<>>]

\* no function applied yet
NoCall == [op |-> "none", arg |-> <<>>, result |-> <<>>]

\* the event loop of a node with no coroutine running
Idle == [kind |-> "none", id |-> 0]

-----------------------------------------------------------------------------
(* Transport: send_message / transmit, one connection per message *)

RECURSIVE SeqToBag(_)
SeqToBag(s) ==
    IF s = <<>> THEN EmptyBag ELSE SeqToBag(Tail(s)) (+) SetToBag({Head(s)})

\* the packets one handler transmits: message m to each address of dsts, in order
Packets(dsts, m) == [i \in 1 .. Len(dsts) |-> [dst |-> dsts[i], msg |-> m]]

OnWire(src, pkts) ==
    [i \in 1 .. Len(pkts) |-> [src |-> src, dst |-> pkts[i].dst, msg |-> pkts[i].msg]]

\* PeerNode.send_message returns False for the address None and sends nothing
Sendable(pkts) == SelectSeq(pkts, LAMBDA p : p.dst # None)

\* A handler of node n that took the packets of bag taken from the network
\* (a control operation takes none) ends having printed signal about message
\* m and transmitted pkts.
Emit(n, taken, signal, m, pkts) ==
    /\ net' = (net (-) taken) (+) SeqToBag(Sendable(pkts))
    /\ wire' = wire (+) SeqToBag(OnWire(n, Sendable(pkts)))
    /\ out' = [node |-> n, signal |-> signal, msg |-> m, sent |-> Sendable(pkts)]

Taken(p) == SetToBag({p})

Inbound(n, operation) ==
    {p \in BagToSet(net) : p.dst = n /\ p.msg.operation = operation}

get_next_seqno(n) == [seqno EXCEPT ![n] = @ + 1]
mark_seen(n, m) == [seen_messages EXCEPT ![n] = @ \cup {to_unique_tuple(m)}]
\* every mode counted as flood
update_flood_stats(n, mode) == [stats EXCEPT ![n].count["FL"] = @ + 1]

\* _update_stats / metrics.*_count += 1
update_stats(n, mode) == [stats EXCEPT ![n].count[mode] = @ + 1]
update_hops(n, mode, hop_count) == [stats EXCEPT ![n].hops[mode] = Append(@, hop_count)]

-----------------------------------------------------------------------------
(* Initial states: nodes constructed, neighbour tables and key stores loaded *)

\* the lists of at most k addresses out of S
RECURSIVE ListsUpTo(_, _)
ListsUpTo(S, k) ==
    IF k = 0 THEN {<<>>}
    ELSE ListsUpTo(S, k - 1) \cup
         {Append(l, x) : l \in {q \in ListsUpTo(S, k - 1) : Len(q) = k - 1}, x \in S}

\* the i-th node other than n
Other(n, i) == IF i < n THEN i ELSE i + 1

\* entries of a table that repeat an earlier entry
Repeats(l) == Len(l) - Cardinality({l[i] : i \in 1 .. Len(l)})

RECURSIVE SumOver(_, _)
SumOver(f, S) ==
    IF S = {} THEN 0
    ELSE LET x == CHOOSE y \in S : TRUE IN f[x] + SumOver(f, S \ {x})

\* PeerNode._add_neighbour and process_hello append an address only when it is
\* not in the table: every duplicate-free list of other nodes is a table.
\* Peer.init_neighbors appends every line of the neighbours file that answers
\* HELLO, with no membership test, while the server already handles HELLO:
\* a file naming a node twice, or a HELLO arriving during bootstrap, leaves an
\* address in the table twice.  A table may repeat entries, here at most
\* repeats over the whole network.  A table is a list of Other(n, i).
Tables(rewrite, repeats) ==
    IF rewrite = "PeerNode"
    THEN {l \in ListsUpTo(1 .. NumNodes - 1, NumNodes - 1) : Repeats(l) = 0}
    ELSE {l \in ListsUpTo(1 .. NumNodes - 1, NumNodes - 1 + repeats) :
            Repeats(l) <= repeats}

Topologies(rewrite, repeats) ==
    {[n \in Nodes |-> [i \in 1 .. Len(t[n]) |-> Other(n, t[n][i])]] :
        t \in {u \in [Nodes -> Tables(rewrite, repeats)] :
                 SumOver([n \in Nodes |-> Repeats(u[n])], Nodes) <= repeats}}

Stores == {[k \in K |-> StoredValue(k)] : K \in SUBSET SearchKeys}

EmptyStats == [count |-> [mode \in Modes |-> 0], hops |-> [mode \in Modes |-> <<>>]]

TTLs == 1 .. MaxTTL

\* the nodes of a run as their constructors and loaders leave them: all run
\* one of rewrites, with one of ttls as default TTL
InitNodes(rewrites, ttls, repeats) ==
    /\ impl \in rewrites
    /\ neighbours \in Topologies(impl, repeats)
    /\ keys \in [Nodes -> Stores]
    /\ seqno = [n \in Nodes |-> FirstSeqno]
    /\ \E t \in ttls : default_ttl = [n \in Nodes |-> t]
    /\ seen_messages = [n \in Nodes |-> {}]
    /\ parent_node = [n \in Nodes |-> None]
    /\ candidates = [n \in Nodes |-> <<>>]
    /\ active_node = [n \in Nodes |-> None]
    /\ stats = [n \in Nodes |-> EmptyStats]
    /\ net = EmptyBag
    /\ wire = EmptyBag
    /\ out = [node |-> None, signal |-> "init", msg |-> NoMessage, sent |-> <<>>]
    /\ started = 0
    /\ exited = {}
    /\ conns = [n \in Nodes |-> [i \in 1 .. MaxConns |-> NoConnection]]
    /\ tasks = [n \in Nodes |-> [i \in 1 .. MaxTasks |-> NoTask]]
    /\ running = [n \in Nodes |-> Idle]

InitWith(rewrites, ttls, repeats) ==
    /\ InitNodes(rewrites, ttls, repeats)
    /\ call = NoCall

\* one network of nodes that know nobody and store nothing, for the
\* functions that read no node state
Quiet ==
    /\ InitNodes({"PeerNode"}, {DefaultTTL}, 0)
    /\ \A n \in Nodes : neighbours[n] = <<>> /\ DOMAIN keys[n] = {}

\* a function applied: nothing of the nodes changes
Apply(op, result) ==
    /\ call.op = "input"
    /\ call' = [op |-> op, arg |-> call.arg, result |-> result]
    /\ UNCHANGED <<impl, neighbours, keys, seqno, default_ttl, seen_messages,
                   session, stats, net, out, wire, started, exited, loop>>

InitNode == InitWith(Impls, TTLs \cup {DefaultTTL}, MaxRepeats)

-----------------------------------------------------------------------------
(* PeerNode (src/peernode.py): the gate shared by the three search modes *)

\* the gate with the key lookup moved before the duplicate test
GateLookupFirst(n, message) ==
    IF has_key(n, message.args[3]) THEN "value"
    ELSE IF to_unique_tuple(message) \in seen_messages[n] THEN "duplicate"
    ELSE IF is_ttl_expired(forward_message(message, n)) THEN "ttl"
    ELSE "forward"

\* process_search_message: what the gate decides for message at node n
process_search_message(n, message) ==
    IF to_unique_tuple(message) \in seen_messages[n] THEN "duplicate"
    ELSE IF has_key(n, message.args[3]) THEN "value"
    ELSE IF is_ttl_expired(forward_message(message, n)) THEN "ttl"
    ELSE "forward"

\* the VAL reply handed to the relay the search came from
ReplyToLastHop(n, message) ==
    <<[dst |-> message.args[2],
       msg |-> ValMessage(n, seqno[n], message.args[1], message.args[3],
                          keys[n][message.args[3]], message.args[4])]>>

\* the VAL reply carrying the hop-count of the forwarded copy
ReplyCountingHop(n, message) ==
    <<[dst |-> message.origin,
       msg |-> ValMessage(n, seqno[n], message.args[1], message.args[3],
                          keys[n][message.args[3]], message.args[4] + 1)]>>

\* the VAL reply of a key hit, sent directly to the search's origin
Reply(n, message) ==
    <<[dst |-> message.origin,
       msg |-> ValMessage(n, seqno[n], message.args[1], message.args[3],
                          keys[n][message.args[3]], message.args[4])]>>

\* the state the gate leaves behind
GateState(n, message, verdict) ==
    /\ seen_messages' = IF verdict = "duplicate" THEN seen_messages
                        ELSE mark_seen(n, message)
    /\ seqno' = IF verdict = "value" THEN get_next_seqno(n) ELSE seqno

\* forward_message builds the new Message without a sender: its sender is None
ForwardedSender == None

\* process_flood_search: [n for n in neighbours if n != new_message.sender]
FloodTargets(n) == SelectSeq(neighbours[n], LAMBDA x : x # ForwardedSender)

process_flood_search(n) ==
    /\ impl = "PeerNode"
    /\ \E p \in Inbound(n, "SEARCH") :
         /\ p.msg.args[1] = "FL"
         /\ LET message == p.msg
                verdict == process_search_message(n, message)
                new_message == forward_message(message, n)
            IN  /\ stats' = update_stats(n, "FL")
                /\ GateState(n, message, verdict)
                /\ Emit(n, Taken(p), verdict, message,
                        CASE verdict = "value" -> Reply(n, message)
                          [] verdict = "forward" -> Packets(FloodTargets(n), new_message)
                          [] OTHER -> <<>>)
    /\ UNCHANGED <<config, session, started>>

process_val(n) ==
    /\ \E p \in Inbound(n, "VAL") :
         /\ stats' = update_hops(n, p.msg.args[1], p.msg.args[4])
         /\ Emit(n, Taken(p), "val", p.msg, <<>>)
    /\ UNCHANGED <<config, session, seqno, seen_messages, started>>

\* process_random_search: the next hop, chosen by random.choice among the
\* neighbours other than new_message.sender, else new_message.sender itself
RandomTargets(n) ==
    LET others == SelectSeq(neighbours[n], LAMBDA x : x # ForwardedSender)
    IN  IF others # <<>> THEN Range(others) ELSE {ForwardedSender}

process_random_search(n) ==
    /\ impl = "PeerNode"
    /\ \E p \in Inbound(n, "SEARCH") :
         /\ p.msg.args[1] = "RW"
         /\ LET message == p.msg
                verdict == process_search_message(n, message)
                new_message == forward_message(message, n)
            IN  /\ stats' = update_stats(n, "RW")
                /\ GateState(n, message, verdict)
                /\ \E next_hop \in RandomTargets(n) :
                     Emit(n, Taken(p), verdict, message,
                          CASE verdict = "value" -> Reply(n, message)
                            [] verdict = "forward" -> Packets(<<next_hop>>, new_message)
                            [] OTHER -> <<>>)
    /\ UNCHANGED <<config, session, started>>

\* remove_candidate
remove_candidate(list, candidate) ==
    IF Contains(list, candidate) THEN ListRemove(list, candidate) ELSE list

\* process_depth_search tests "to_unique_tuple() not in seen_messages" after the
\* gate has added the key
FreshAfterGate(n, message) == to_unique_tuple(message) \notin mark_seen(n, message)[n]

\* _handle_depth_search_response: the branch taken, given the session as it
\* is when the branch is chosen
DepthBranch(n, parent, active, cands, sender) ==
    IF parent = None THEN "no_parent"
    ELSE IF parent = n /\ active = sender /\ cands = <<>> THEN "not_found"
    ELSE IF active # None /\ active # sender THEN "cycle"
    ELSE IF cands = <<>> THEN "backtrack"
    ELSE "descend"

\* the session step with the cycle bounce addressed to the parent
DepthStepBounceToParent(n, parent, active, cands, sender, branch) ==
    [parent |-> parent,
     cands  |-> IF branch = "descend" THEN ButLast(cands) ELSE cands,
     active |-> IF branch = "descend" THEN Last(cands) ELSE active,
     dsts   |-> CASE branch = "cycle" -> <<parent>>
                  [] branch = "backtrack" -> <<parent>>
                  [] branch = "descend" -> <<Last(cands)>>
                  [] OTHER -> <<>>]

\* the session a branch leaves, and where it sends the message
DepthStep(n, parent, active, cands, sender, branch) ==
    [parent |-> parent,
     cands  |-> IF branch = "descend" THEN ButLast(cands) ELSE cands,
     active |-> IF branch = "descend" THEN Last(cands) ELSE active,
     dsts   |-> CASE branch = "cycle" -> <<sender>>
                  [] branch = "backtrack" -> <<parent>>
                  [] branch = "descend" -> <<Last(cands)>>
                  [] OTHER -> <<>>]

process_depth_search(n) ==
    /\ impl = "PeerNode"
    /\ \E p \in Inbound(n, "SEARCH") :
         /\ p.msg.args[1] = "BP"
         /\ LET message == p.msg
                verdict == process_search_message(n, message)
                new_message == forward_message(message, n)
                fresh == FreshAfterGate(n, message)
                parent == IF fresh THEN ForwardedSender ELSE parent_node[n]
                cands0 == IF fresh
                          THEN SelectSeq(neighbours[n], LAMBDA x : x # ForwardedSender)
                          ELSE candidates[n]
                active == IF fresh THEN None ELSE active_node[n]
                cands == remove_candidate(cands0, ForwardedSender)
                branch == DepthBranch(n, parent, active, cands, ForwardedSender)
                step == DepthStep(n, parent, active, cands, ForwardedSender, branch)
            IN  /\ stats' = update_stats(n, "BP")
                /\ GateState(n, message, verdict)
                /\ IF verdict = "forward"
                   THEN /\ parent_node' = [parent_node EXCEPT ![n] = step.parent]
                        /\ candidates' = [candidates EXCEPT ![n] = step.cands]
                        /\ active_node' = [active_node EXCEPT ![n] = step.active]
                        /\ Emit(n, Taken(p), branch, message, Packets(step.dsts, new_message))
                   ELSE /\ UNCHANGED session
                        /\ Emit(n, Taken(p), verdict, message,
                                IF verdict = "value" THEN Reply(n, message) ELSE <<>>)
    /\ UNCHANGED <<config, started>>

\* where _new_search sends the first message: to every neighbour (FL), to
\* random.choice(neighbours) (RW), to candidates.pop() (BP); random.choice and
\* pop raise IndexError on an empty table, after the state changes made so far
FirstTargets(n, search_type) ==
    CASE search_type = "FL" -> {neighbours[n]}
      [] search_type = "RW" -> {<<x>> : x \in Range(neighbours[n])}
      [] search_type = "BP" -> IF neighbours[n] = <<>> THEN {}
                               ELSE {<<Last(neighbours[n])>>}

\* the depth-first session after the originator's set-up
FirstSession(n, search_type) ==
    IF search_type # "BP"
    THEN [parent |-> parent_node[n], cands |-> candidates[n], active |-> active_node[n]]
    ELSE IF neighbours[n] = <<>>
    THEN [parent |-> n, cands |-> <<>>, active |-> active_node[n]]
    ELSE [parent |-> n, cands |-> ButLast(neighbours[n]), active |-> Last(neighbours[n])]

\* a search never answered locally
NeverLocal(n, key) == FALSE

\* check_local_key / get_local_key: the key is in the node's own store
check_local_key(n, key) == has_key(n, key)

\* the originator's part common to _new_search (PeerNode) and start_*_search
\* (Peer), while fewer than limit searches were started
OriginateUpTo(n, search_type, key, limit) ==
    /\ started < limit
    /\ started' = started + 1
    /\ IF check_local_key(n, key)
       THEN /\ Emit(n, EmptyBag, "local", NoMessage, <<>>)
            /\ UNCHANGED <<seqno, seen_messages, session>>
       ELSE LET search_message ==
                    SearchMessage(n, seqno[n], default_ttl[n], search_type, n, key, FirstHop)
                first == FirstSession(n, search_type)
            IN  /\ seqno' = get_next_seqno(n)
                /\ seen_messages' = mark_seen(n, search_message)
                /\ parent_node' = [parent_node EXCEPT ![n] = first.parent]
                /\ candidates' = [candidates EXCEPT ![n] = first.cands]
                /\ active_node' = [active_node EXCEPT ![n] = first.active]
                /\ IF FirstTargets(n, search_type) = {}
                   THEN Emit(n, EmptyBag, "IndexError", search_message, <<>>)
                   ELSE \E dsts \in FirstTargets(n, search_type) :
                            Emit(n, EmptyBag, "search", search_message,
                                 Packets(dsts, search_message))
    /\ UNCHANGED <<config, stats>>

Originate(n, search_type, key) == OriginateUpTo(n, search_type, key, MaxSearches)

new_search(n, search_type, key) ==
    /\ impl = "PeerNode"
    /\ Originate(n, search_type, key)

-----------------------------------------------------------------------------
(* Peer (src/main.py) *)

\* last_hop = packet.sender, int(last_hop_port)
LastHop(packet) == packet.args[2]

\* the flood handler without its duplicate test
FloodVerdictNoDedup(n, packet) ==
    IF has_key(n, packet.args[3]) THEN "value"
    ELSE IF is_ttl_expired(forward_message(packet, n)) THEN "ttl"
    ELSE "forward"

\* handle_flood_search: what the handler decides for packet at node n
FloodVerdict(n, packet) ==
    IF to_unique_tuple(packet) \in seen_messages[n] THEN "duplicate"
    ELSE IF has_key(n, packet.args[3]) THEN "value"
    ELSE IF is_ttl_expired(forward_message(packet, n)) THEN "ttl"
    ELSE "forward"

\* for neighbor in self.neighbors: if neighbor == last_hop: continue
RelayTargets(n, last_hop) == SelectSeq(neighbours[n], LAMBDA x : x # last_hop)

handle_flood_search(n) ==
    /\ impl = "Peer"
    /\ \E p \in Inbound(n, "SEARCH") :
         /\ p.msg.args[1] = "FL"
         /\ LET packet == p.msg
                verdict == FloodVerdict(n, packet)
                forward == forward_message(packet, n)
            IN  /\ stats' = IF verdict = "duplicate" THEN stats
                             ELSE update_stats(n, "FL")
                /\ GateState(n, packet, verdict)
                /\ Emit(n, Taken(p), verdict, packet,
                        CASE verdict = "value" -> Reply(n, packet)
                          [] verdict = "forward" ->
                               Packets(RelayTargets(n, LastHop(packet)), forward)
                          [] OTHER -> <<>>)
    /\ UNCHANGED <<config, session, started>>

start_flood_search(n, key) ==
    /\ impl = "Peer"
    /\ Originate(n, "FL", key)

start_random_walk_search(n, key) ==
    /\ impl = "Peer"
    /\ Originate(n, "RW", key)

start_depth_first_search(n, key) ==
    /\ impl = "Peer"
    /\ Originate(n, "BP", key)

\* handle_random_walk_search: no duplicate test
WalkVerdict(n, packet) ==
    IF has_key(n, packet.args[3]) THEN "value"
    ELSE IF is_ttl_expired(forward_message(packet, n)) THEN "ttl"
    ELSE "forward"

\* options = [n for n in self.neighbors if n != last_hop]
WalkTargets(n, last_hop) ==
    LET options == SelectSeq(neighbours[n], LAMBDA x : x # last_hop)
    IN  IF options # <<>> THEN Range(options) ELSE {last_hop}

handle_random_walk_search(n) ==
    /\ impl = "Peer"
    /\ \E p \in Inbound(n, "SEARCH") :
         /\ p.msg.args[1] = "RW"
         /\ LET packet == p.msg
                verdict == WalkVerdict(n, packet)
                forward == forward_message(packet, n)
            IN  /\ seen_messages' = mark_seen(n, packet)
                /\ stats' = update_stats(n, "RW")
                /\ seqno' = IF verdict = "value" THEN get_next_seqno(n) ELSE seqno
                /\ \E next_hop \in WalkTargets(n, LastHop(packet)) :
                     Emit(n, Taken(p), verdict, packet,
                          CASE verdict = "value" -> Reply(n, packet)
                            [] verdict = "forward" -> Packets(<<next_hop>>, forward)
                            [] OTHER -> <<>>)
    /\ UNCHANGED <<config, session, started>>

\* remove_unexplored
remove_unexplored(list, node) ==
    IF Contains(list, node) THEN ListRemove(list, node) ELSE list

\* handle_depth_first_search: key hit and TTL are tested before the session
DepthVerdict(n, packet) ==
    IF has_key(n, packet.args[3]) THEN "value"
    ELSE IF is_ttl_expired(forward_message(packet, n)) THEN "ttl"
    ELSE "forward"

\* the branches with failure reported by whoever has run out of candidates
PeerBranchAnyParent(n, parent, current, unexplored, last_hop) ==
    IF current = last_hop /\ unexplored = <<>> THEN "not_found"
    ELSE IF current # None /\ current # last_hop THEN "cycle"
    ELSE IF unexplored = <<>> THEN "backtrack"
    ELSE "descend"

\* the branch taken once last_hop is removed from unexplored
PeerBranch(n, parent, current, unexplored, last_hop) ==
    IF parent = n /\ current = last_hop /\ unexplored = <<>> THEN "not_found"
    ELSE IF current # None /\ current # last_hop THEN "cycle"
    ELSE IF unexplored = <<>> THEN "backtrack"
    ELSE "descend"

\* a session begun only by a node that has none
NotProcessedAndIdle(n, packet) ==
    to_unique_tuple(packet) \notin seen_messages[n] /\ parent_node[n] = None

\* if packet.get_unique_id() not in self.processed
NotProcessed(n, packet) == to_unique_tuple(packet) \notin seen_messages[n]

handle_depth_first_search(n) ==
    /\ impl = "Peer"
    /\ \E p \in Inbound(n, "SEARCH") :
         /\ p.msg.args[1] = "BP"
         /\ LET packet == p.msg
                last_hop == LastHop(packet)
                verdict == DepthVerdict(n, packet)
                forward == forward_message(packet, n)
                fresh == NotProcessed(n, packet)
                parent == IF fresh THEN last_hop ELSE parent_node[n]
                unexplored0 == IF fresh THEN neighbours[n] ELSE candidates[n]
                current == IF fresh THEN None ELSE active_node[n]
                unexplored == remove_unexplored(unexplored0, last_hop)
                branch == PeerBranch(n, parent, current, unexplored, last_hop)
                step == DepthStep(n, parent, current, unexplored, last_hop, branch)
            IN  /\ stats' = update_stats(n, "BP")
                /\ seqno' = IF verdict = "value" THEN get_next_seqno(n) ELSE seqno
                /\ IF verdict = "forward"
                   THEN /\ seen_messages' = mark_seen(n, packet)
                        /\ parent_node' = [parent_node EXCEPT ![n] = step.parent]
                        /\ candidates' = [candidates EXCEPT ![n] = step.cands]
                        /\ active_node' = [active_node EXCEPT ![n] = step.active]
                        /\ Emit(n, Taken(p), branch, packet, Packets(step.dsts, forward))
                   ELSE /\ UNCHANGED <<seen_messages, session>>
                        /\ Emit(n, Taken(p), verdict, packet,
                                IF verdict = "value" THEN Reply(n, packet) ELSE <<>>)
    /\ UNCHANGED <<config, started>>

-----------------------------------------------------------------------------
(* The neighbour graph *)

Edge(a, b) == Contains(neighbours[a], b)
Symmetric == \A a, b \in Nodes : Edge(a, b) <=> Edge(b, a)

RECURSIVE ReachFrom(_)
ReachFrom(S) ==
    LET T == S \cup {b \in Nodes : \E a \in S : Edge(a, b)}
    IN  IF T = S THEN S ELSE ReachFrom(T)
Reachable(o) == ReachFrom({o})
Connected == \A o \in Nodes : Reachable(o) = Nodes

\* undirected edges of a symmetric graph
NumEdges == Cardinality({e \in SUBSET Nodes : \E a, b \in Nodes : a # b /\ e = {a, b} /\ Edge(a, b)})
IsTree == Symmetric /\ Connected /\ NumEdges = NumNodes - 1
IsLeaf(n) == Cardinality({b \in Nodes : Edge(n, b)}) = 1
DuplicateFree == \A n \in Nodes : Repeats(neighbours[n]) = 0

Holders(key) == {n \in Nodes : has_key(n, key)}

-----------------------------------------------------------------------------
(* Flooding, both rewrites *)

InitFlood == InitNode

NextFlood ==
    \E n \in Nodes :
        \/ \E key \in SearchKeys : new_search(n, "FL", key)
        \/ \E key \in SearchKeys : start_flood_search(n, key)
        \/ process_flood_search(n)
        \/ handle_flood_search(n)
        \/ process_val(n)

SpecFlood == InitFlood /\ [][NextFlood]_vars

\* handle_connection hands every message read to a task of the node's event
\* loop (asyncio.create_task), and the loop runs every task it holds: a
\* message in net is processed.
FairFlood ==
    /\ SpecFlood
    /\ \A n \in Nodes :
         WF_vars(process_flood_search(n) \/ handle_flood_search(n) \/ process_val(n))

\* flooding in a connected network with symmetric tables and an initial TTL
\* of at least the number of nodes
InitFloodConnected ==
    /\ InitNode
    /\ Symmetric /\ Connected
    /\ \A n \in Nodes : default_ttl[n] >= NumNodes

FairFloodConnected ==
    /\ InitFloodConnected /\ [][NextFlood]_vars
    /\ \A n \in Nodes :
         WF_vars(process_flood_search(n) \/ handle_flood_search(n) \/ process_val(n))

-----------------------------------------------------------------------------
(* Depth-first search, both rewrites *)

InitDepth == InitNode

NextDepth ==
    \E n \in Nodes :
        \/ \E key \in SearchKeys : new_search(n, "BP", key)
        \/ \E key \in SearchKeys : start_depth_first_search(n, key)
        \/ process_depth_search(n)
        \/ handle_depth_first_search(n)
        \/ process_val(n)

SpecDepth == InitDepth /\ [][NextDepth]_vars

-----------------------------------------------------------------------------
(* Depth-first search of Peer (src/main.py) in a connected network with     *)
(* symmetric tables                                                         *)

\* a TTL above twice the edges of a tree over Nodes
TreeTTL == 2 * (NumNodes - 1) + 1

InitPeerDepth ==
    /\ InitWith({"Peer"}, TTLs \cup {TreeTTL, DefaultTTL}, MaxDepthRepeats)
    /\ Symmetric /\ Connected

NextPeerDepth ==
    \E n \in Nodes :
        \/ \E key \in SearchKeys : start_depth_first_search(n, key)
        \/ handle_depth_first_search(n)
        \/ process_val(n)

SpecPeerDepth == InitPeerDepth /\ [][NextPeerDepth]_vars

\* the same with a TTL that outlasts every traversal
InitPeerDepthLong ==
    /\ InitWith({"Peer"}, {TreeTTL, DefaultTTL}, MaxRepeats)
    /\ Symmetric /\ Connected

FairPeerDepth ==
    /\ InitPeerDepthLong /\ [][NextPeerDepth]_vars
    /\ \A n \in Nodes : WF_vars(handle_depth_first_search(n) \/ process_val(n))

-----------------------------------------------------------------------------
(* Every mode, both rewrites *)

\* tables without repeated entries: those are the subject of the one-mode
\* specifications above
Init == InitWith(Impls, TTLs \cup {DefaultTTL}, 0)

Next ==
    \E n \in Nodes :
        \/ \E key \in SearchKeys, search_type \in Modes : new_search(n, search_type, key)
        \/ \E key \in SearchKeys : start_flood_search(n, key)
        \/ \E key \in SearchKeys : start_random_walk_search(n, key)
        \/ \E key \in SearchKeys : start_depth_first_search(n, key)
        \/ process_flood_search(n)
        \/ process_random_search(n)
        \/ process_depth_search(n)
        \/ handle_flood_search(n)
        \/ handle_random_walk_search(n)
        \/ handle_depth_first_search(n)
        \/ process_val(n)

Spec == Init /\ [][Next]_vars

-----------------------------------------------------------------------------
(* Histories *)

\* the SEARCH transmissions made so far, and those of one search from a to b
Searches == {w \in BagToSet(wire) : w.msg.operation = "SEARCH"}
RECURSIVE SumCopies(_)
SumCopies(W) ==
    IF W = {} THEN 0
    ELSE LET w == CHOOSE x \in W : TRUE
         IN  CopiesIn(w, wire) + SumCopies(W \ {w})
Carried(id, a, b) ==
    SumCopies({w \in Searches : to_unique_tuple(w.msg) = id /\ w.src = a /\ w.dst = b})
SearchIds == {to_unique_tuple(w.msg) : w \in Searches}

InFlight(operation) == {p \in BagToSet(net) : p.msg.operation = operation}

\* what the step just taken handled: every action records it in out'
HandledSearch(mode) ==
    /\ out'.node \in Nodes
    /\ out'.msg.operation = "SEARCH"
    /\ out'.msg.args[1] = mode
    /\ [dst |-> out'.node, msg |-> out'.msg] \in BagToSet(net)
    /\ out'.msg.origin # out'.node \/ out'.msg.seqno < seqno[out'.node]

SentSearches(o) == {i \in 1 .. Len(o.sent) : o.sent[i].msg.operation = "SEARCH"}

-----------------------------------------------------------------------------
(* C1: in one flood search every node transmits the SEARCH to each of its   *)
(* neighbours at most once: each directed edge carries at most one copy of  *)
(* a search (one dedup key).                                                *)
C1_OneCopyPerEdge ==
    \A id \in SearchIds, a, b \in Nodes : Carried(id, a, b) <= 1

(* C2: a flood SEARCH whose dedup key is already in the receiving node's    *)
(* seen-set is discarded with no further action: nothing is transmitted     *)
(* (no VAL even if the node holds the key, no relay), and neighbour table,  *)
(* seen-set, sequence counter and depth-first session stay as they are.     *)
C2_DuplicateFloodDiscarded ==
    [][(HandledSearch("FL") /\ to_unique_tuple(out'.msg) \in seen_messages[out'.node])
        => /\ out'.sent = <<>>
           /\ net' = net (-) SetToBag({[dst |-> out'.node, msg |-> out'.msg]})
           /\ wire' = wire
           /\ neighbours' = neighbours
           /\ seen_messages' = seen_messages
           /\ seqno' = seqno
           /\ UNCHANGED session]_vars

\* a key holder has discarded a second copy of a flood it already answered
C2_Witness ==
    /\ out.signal = "duplicate"
    /\ out.msg.args[1] = "FL"
    /\ has_key(out.node, out.msg.args[3])
    /\ out.msg.origin # out.node

\* table entries of the whole network: the directed edges, with multiplicity
TableEntries == SumOver([n \in Nodes |-> Len(neighbours[n])], Nodes)
Copies(id) ==
    SumCopies({w \in Searches : to_unique_tuple(w.msg) = id})

(* C3: a flood search always terminates, on any finite neighbour graph,     *)
(* for any initial TTL and any delivery order: a search never makes more    *)
(* transmissions than the tables have entries, and whenever a SEARCH is in  *)
(* flight a state follows in which none is in flight or awaiting            *)
(* processing.                                                              *)
C3_FloodTerminates ==
    /\ [](\A id \in SearchIds : Copies(id) <= TableEntries)
    /\ (InFlight("SEARCH") # {}) ~> (InFlight("SEARCH") = {})

\* a flood on a ring has run to its end: every node saw it, copies met
\* nodes that had seen it, and nothing is in flight
C3_Witness ==
    /\ \A a, b \in Nodes : a # b => Edge(a, b)
    /\ default_ttl[1] = DefaultTTL
    /\ \E id \in SearchIds :
         /\ id[3] = <<"SEARCH", "FL">>
         /\ \A n \in Nodes : id \in seen_messages[n]
         /\ Copies(id) = TableEntries
    /\ out.signal = "duplicate"
    /\ net = EmptyBag

\* a flood of key by o is under way in a connected symmetric network where
\* another node holds the key, with an initial TTL of at least NumNodes
C4_Case(o, key) ==
    /\ Symmetric /\ Connected
    /\ default_ttl[o] >= NumNodes
    /\ Holders(key) \ {o} # {}
    /\ out.node = o /\ out.signal = "search"
    /\ out.msg.args[1] = "FL" /\ out.msg.args[3] = key

ValReceived(o, mode, key) ==
    /\ out.node = o /\ out.signal = "val"
    /\ out.msg.args[1] = mode /\ out.msg.args[2] = key

(* C4: in a connected network with symmetric tables, reliable transmits and *)
(* an initial TTL of at least the number of nodes, a flood search for a key *)
(* held by a node other than the originator leads, under every delivery     *)
(* order, to a VAL reply for that key being received by the originator.     *)
C4_FloodFindsKey ==
    \A o \in Nodes, key \in SearchKeys :
        C4_Case(o, key) ~> ValReceived(o, "FL", key)

\* the originator got the VAL of a holder two hops away
C4_Witness ==
    /\ Symmetric /\ Connected
    /\ \E key \in SearchKeys : ValReceived(out.node, "FL", key)
    /\ default_ttl[out.node] >= NumNodes
    /\ out.msg.args[4] = FirstHop + 1
    /\ ~Edge(out.node, out.msg.origin)

-----------------------------------------------------------------------------
(* Depth-first search *)

\* o has just started a depth-first search for key, the only search of the run
DepthStarted(o, key) ==
    /\ started = 1
    /\ out.node = o /\ out.signal = "search"
    /\ out.msg.args[1] = "BP" /\ out.msg.args[3] = key

\* the search id was transmitted to n, or n originated it
Visited(id, n) ==
    \/ id[1] = n
    \/ \E w \in Searches : w.dst = n /\ to_unique_tuple(w.msg) = id

DepthIds == {id \in SearchIds : id[3] = <<"SEARCH", "BP">>}

\* the originator has just reported that the key was not found
NotFoundAt(o) == out.signal = "not_found" /\ out.node = o

C5_Case(o, key) ==
    /\ impl = "Peer"
    /\ IsTree
    /\ \E h \in Nodes \ {o} : Holders(key) = {h} /\ IsLeaf(h)
    /\ default_ttl[o] > 2 * NumEdges
    /\ DepthStarted(o, key)

(* C5: in Peer, a depth-first search started at the root of a tree-shaped   *)
(* symmetric neighbour graph in which exactly one leaf holds the key, with  *)
(* an initial TTL above twice the number of edges, leads to the key holder  *)
(* handling the search and to the originator receiving a VAL for the key.   *)
C5_TreeSearchFindsKey ==
    \A o \in Nodes, key \in SearchKeys :
        C5_Case(o, key) ~>
            (ValReceived(o, "BP", key) /\ \A h \in Holders(key) : stats[h].count["BP"] > 0)

(* C6: in Peer, a depth-first search on a tree-shaped symmetric neighbour   *)
(* graph carries the SEARCH/BP over every directed edge at most once.       *)
C6_TreeEdgeOnce ==
    (impl = "Peer" /\ IsTree /\ started <= 1)
        => \A id \in DepthIds, a, b \in Nodes : Carried(id, a, b) <= 1

C7_Case(o, key) ==
    /\ impl = "Peer"
    /\ Symmetric /\ Connected
    /\ Holders(key) = {}
    /\ default_ttl[o] > 2 * TableEntries
    /\ DepthStarted(o, key)

(* C7: in Peer, on a connected symmetric neighbour graph where no node      *)
(* holds the key, with sufficient TTL and no other search, a depth-first    *)
(* search leads to the originator reporting "not found" with the SEARCH     *)
(* delivered to every node and no message of the search in flight.          *)
C7_ExhaustiveThenNotFound ==
    \A o \in Nodes, key \in SearchKeys :
        C7_Case(o, key) ~>
            /\ NotFoundAt(o)
            /\ \A n \in Nodes : \A id \in DepthIds : Visited(id, n)
            /\ InFlight("SEARCH") = {}

(* C8: in Peer, with symmetric tables and a single search, the originator   *)
(* of a depth-first search reports "not found" only after every node        *)
(* reachable from it has received the search, and never while a reachable   *)
(* node holds the key.                                                      *)
C8_NotFoundIsSound ==
    (impl = "Peer" /\ Symmetric /\ started <= 1 /\ out.signal = "not_found")
        => /\ \A n \in Reachable(out.node) :
                 /\ ~has_key(n, out.msg.args[3])
                 /\ Visited(to_unique_tuple(out.msg), n)

\* Peer node n, whose active candidate is B, handles in this step a
\* depth-first SEARCH it has seen before, from a relay C other than B, that
\* is neither a key hit nor expired
CycleCase ==
    /\ HandledSearch("BP")
    /\ impl = "Peer"
    /\ to_unique_tuple(out'.msg) \in seen_messages[out'.node]
    /\ ~has_key(out'.node, out'.msg.args[3])
    /\ ~is_ttl_expired(forward_message(out'.msg, out'.node))
    /\ active_node[out'.node] # None
    /\ active_node[out'.node] # LastHop(out'.msg)

Without(list, x) == SelectSeq(list, LAMBDA y : y # x)

(* C9 (as the code has it): in Peer, a node whose active candidate is B     *)
(* that handles a depth-first SEARCH it has already seen from a relay C     *)
(* other than B sends back to C the forwarded copy (ttl - 1, hop-count + 1, *)
(* relay-port its own port); parent and active stay, no candidate is        *)
(* popped (the stack keeps every entry other than C, in order).             *)
C9_BounceForwarded ==
    [][CycleCase =>
        /\ out'.signal = "cycle"
        /\ out'.sent = <<[dst |-> LastHop(out'.msg),
                          msg |-> [out'.msg EXCEPT
                                     !.ttl = @ - 1,
                                     !.args = <<"BP", out'.node, @[3], @[4] + 1>>]]>>
        /\ parent_node' = parent_node
        /\ active_node' = active_node
        /\ Without(candidates'[out'.node], LastHop(out'.msg))
             = Without(candidates[out'.node], LastHop(out'.msg))
        /\ \A n \in Nodes \ {out'.node} : candidates'[n] = candidates[n]]_vars

\* the originator of a search round a ring has bounced the message that
\* came round to it
C9_Witness ==
    /\ impl = "Peer"
    /\ out.signal = "cycle"
    /\ out.node = out.msg.origin
    /\ Len(out.sent) = 1
    /\ out.sent[1].dst = LastHop(out.msg)
    /\ out.sent[1].dst # active_node[out.node]
    /\ out.sent[1].msg.ttl = out.msg.ttl - 1

(* C9 (as stated): the message goes back to C unchanged, with the ttl,      *)
(* hop-count and relay-port it was received with, and the session stays.    *)
C9_BounceUnchanged ==
    [][CycleCase =>
        /\ out'.sent = <<[dst |-> LastHop(out'.msg), msg |-> out'.msg]>>
        /\ parent_node' = parent_node
        /\ active_node' = active_node]_vars

\* a SEARCH that has been relayed: its hop-count is above the originator's
Relayed(m) == m.operation = "SEARCH" /\ m.args[4] > FirstHop

(* C10: no node relays a SEARCH with ttl <= 0: every relayed SEARCH on the  *)
(* wire has ttl >= 1, and in every mode the handling of a SEARCH whose      *)
(* forwarded copy (ttl - 1) has ttl <= 0 sends no SEARCH and raises no      *)
(* error (it ends as duplicate, key hit or TTL drop).                       *)
C10_NoExpiredRelay ==
    /\ [](\A w \in BagToSet(wire) : Relayed(w.msg) => w.msg.ttl >= 1)
    /\ [][((\E mode \in Modes : HandledSearch(mode)) /\ out'.msg.ttl - 1 <= 0)
            => /\ SentSearches(out') = {}
               /\ out'.signal \in {"duplicate", "value", "ttl"}]_vars

\* a random-walk SEARCH that arrived with ttl 1 after two hops has been
\* dropped by a node that has neighbours to send it to
C10_Witness ==
    /\ out.signal = "ttl"
    /\ out.msg.ttl = 1
    /\ out.msg.args[1] = "RW"
    /\ Relayed(out.msg)
    /\ out.sent = <<>>
    /\ neighbours[out.node] # <<>>

-----------------------------------------------------------------------------
(* The forwarded copy, the relay rules of PeerNode, the VAL reply *)

(* C11: the copy a handler forwards (forward_message / forward_search) of   *)
(* the SEARCH it received has ttl = ttl - 1, hop-count = hop-count + 1 and  *)
(* relay-port = the relaying node's port, with origin, sequence number,     *)
(* operation, search-mode and key as in the input; the received message is  *)
(* the one the handler reports on afterwards, unmodified.                   *)
C11_ForwardedCopy ==
    [][(\E mode \in Modes : HandledSearch(mode))
        => \A i \in SentSearches(out') :
             LET new == out'.sent[i].msg
                 old == out'.msg
             IN  /\ new.ttl = old.ttl - 1
                 /\ new.args[4] = old.args[4] + 1
                 /\ new.args[2] = out'.node
                 /\ new.origin = old.origin
                 /\ new.seqno = old.seqno
                 /\ new.operation = old.operation
                 /\ new.args[1] = old.args[1]
                 /\ new.args[3] = old.args[3]
                 /\ Len(new.args) = Len(old.args)]_vars

\* a node other than the originator has relayed a search that had already
\* been relayed once
C11_Witness ==
    /\ out.signal = "forward"
    /\ Relayed(out.msg)
    /\ out.msg.origin # out.node
    /\ out.msg.args[2] # out.node
    /\ Len(out.sent) >= 1
    /\ out.sent[1].msg.operation = "SEARCH"
    /\ out.sent[1].msg.args[2] = out.node
    /\ out.sent[1].msg.ttl = out.msg.ttl - 1

\* PeerNode node out'.node handles in this step a SEARCH of mode that passes
\* the gate: not seen before, no key hit, forwarded copy not expired
PassesGate(mode) ==
    /\ HandledSearch(mode)
    /\ impl = "PeerNode"
    /\ to_unique_tuple(out'.msg) \notin seen_messages[out'.node]
    /\ ~has_key(out'.node, out'.msg.args[3])
    /\ ~is_ttl_expired(forward_message(out'.msg, out'.node))

\* the neighbours of the handling node other than the relay the message
\* arrived from
OtherNeighbours == Range(neighbours[out'.node]) \ {LastHop(out'.msg)}

SentTo(o) == {o.sent[i].dst : i \in 1 .. Len(o.sent)}

(* C12: in PeerNode a flood SEARCH that passes the gate is relayed to every *)
(* neighbour except the last hop it was received from, and is not sent back *)
(* to that last hop.                                                        *)
C12_FloodNotBackToLastHop ==
    [][PassesGate("FL") =>
        /\ SentTo(out') = OtherNeighbours
        /\ LastHop(out'.msg) \notin SentTo(out')]_vars

(* C13: in PeerNode a random-walk SEARCH that passes the gate at a node     *)
(* with no neighbour other than the relay it arrived from (the relay is its *)
(* only neighbour, or its table is empty) is sent back to that relay, not   *)
(* dropped.                                                                 *)
C13_WalkBouncesAtDeadEnd ==
    [][(PassesGate("RW") /\ OtherNeighbours = {}) =>
        out'.sent = <<[dst |-> LastHop(out'.msg),
                       msg |-> forward_message(out'.msg, out'.node)]>>]_vars

(* C14: in PeerNode every handled random-walk SEARCH that passes the gate   *)
(* causes exactly one outbound SEARCH, and when the node has a neighbour    *)
(* other than the relay the message arrived from, the next hop is such a    *)
(* neighbour.                                                               *)
C14_WalkOneHopAwayFromRelay ==
    [][PassesGate("RW") =>
        /\ Len(out'.sent) = 1
        /\ SentSearches(out') = {1}
        /\ OtherNeighbours # {} => out'.sent[1].dst \in OtherNeighbours]_vars

(* C15: in PeerNode a random-walk or depth-first SEARCH whose dedup key is  *)
(* already in the seen-set is not discarded as a duplicate: a key holder    *)
(* still answers it, and otherwise it goes on to the forward/TTL check.     *)
C15_RevisitNotDiscarded ==
    [][(/\ HandledSearch("RW") \/ HandledSearch("BP")
        /\ impl = "PeerNode"
        /\ to_unique_tuple(out'.msg) \in seen_messages[out'.node])
        => /\ out'.signal # "duplicate"
           /\ has_key(out'.node, out'.msg.args[3]) => out'.signal = "value"]_vars

(* C16: a node that handles a SEARCH, not discarded as a duplicate, for a   *)
(* key of its local store transmits exactly one message: a VAL addressed to *)
(* the search's origin, with origin = own address, the node's next sequence *)
(* number (then advanced), ttl = 1, the search's mode and key, the stored   *)
(* value and the hop-count as received; it relays no SEARCH.                *)
C16_KeyHitReply ==
    [][(/\ \E mode \in Modes : HandledSearch(mode)
        /\ has_key(out'.node, out'.msg.args[3])
        /\ out'.signal # "duplicate")
        => /\ out'.sent =
                <<[dst |-> out'.msg.origin,
                   msg |-> [origin |-> out'.node,
                            seqno |-> seqno[out'.node],
                            ttl |-> ReplyTTL,
                            operation |-> "VAL",
                            args |-> <<out'.msg.args[1], out'.msg.args[3],
                                       keys[out'.node][out'.msg.args[3]],
                                       out'.msg.args[4]>>]]>>
           /\ seqno'[out'.node] = seqno[out'.node] + 1
           /\ SentSearches(out') = {}]_vars

\* a holder that got a depth-first search from a relay other than the
\* origin has answered the origin
C16_Witness ==
    /\ out.signal = "value"
    /\ out.msg.args[1] = "BP"
    /\ LastHop(out.msg) # out.msg.origin
    /\ Len(out.sent) = 1
    /\ out.sent[1].dst = out.msg.origin
    /\ out.sent[1].msg.operation = "VAL"
    /\ out.sent[1].msg.args[4] = out.msg.args[4]

-----------------------------------------------------------------------------
(* HELLO and BYE: the neighbour table after bootstrap *)

\* a connection to a node whose process has ended is refused: nothing arrives
Up(pkts) == SelectSeq(pkts, LAMBDA p : p.dst \notin exited)

\* send_hello: HELLO to the i-th entry of the table, chosen at the menu
send_hello(n, i) ==
    /\ n \notin exited
    /\ seqno[n] < FirstSeqno + MaxHellos
    /\ i \in 1 .. Len(neighbours[n])
    /\ LET m == ControlMessage(n, seqno[n], "HELLO")
       IN Emit(n, EmptyBag, "hello_sent", m, Up(Packets(<<neighbours[n][i]>>, m)))
    /\ seqno' = get_next_seqno(n)
    /\ UNCHANGED <<config, session, seen_messages, stats, started>>

\* send_bye, then exit: BYE to every entry of the table, and the process ends
send_bye(n) ==
    /\ n \notin exited
    /\ LET m == ControlMessage(n, seqno[n], "BYE")
       IN Emit(n, EmptyBag, "bye_sent", m, Up(Packets(neighbours[n], m)))
    /\ seqno' = get_next_seqno(n)
    /\ exited' = exited \cup {n}
    /\ UNCHANGED <<impl, call, neighbours, keys, default_ttl, loop, session,
                   seen_messages, stats, started>>

\* the table after HELLO from origin
hello_update(table, origin) ==
    IF Contains(table, origin) THEN table ELSE Append(table, origin)

\* the table after BYE from origin: list.remove drops the first occurrence
bye_update(table, origin) ==
    IF Contains(table, origin) THEN ListRemove(table, origin) ELSE table

Operations == {"HELLO", "SEARCH", "VAL", "BYE"}

\* a dispatch that takes what it does not know for a greeting
DispatchHelloByDefault(operation) ==
    IF operation \in Operations THEN operation ELSE "HELLO"

\* operations.get(message.operation, self._unknown_operation)
Dispatch(operation) ==
    IF operation \in Operations THEN operation ELSE "unknown"

\* process_message / process_packet for the two control operations: node n
\* processes message m, which came in the packets of bag taken
Control(n, m, taken) ==
    /\ n \notin exited
    /\ Dispatch(m.operation) \in {"HELLO", "BYE"}
    /\ neighbours' =
         [neighbours EXCEPT ![n] = IF Dispatch(m.operation) = "HELLO"
                                   THEN hello_update(@, m.origin)
                                   ELSE bye_update(@, m.origin)]
    /\ Emit(n, taken, IF Dispatch(m.operation) = "HELLO" THEN "hello" ELSE "bye", m, <<>>)
    /\ UNCHANGED <<impl, call, keys, default_ttl, exited, session, seqno,
                   seen_messages, stats, started>>

\* _unknown_operation / the else branch of process_packet: a line is logged
unknown_operation(n, m, taken) ==
    /\ n \notin exited
    /\ Dispatch(m.operation) = "unknown"
    /\ Emit(n, taken, "unknown", m, <<>>)
    /\ UNCHANGED <<impl, call, neighbours, keys, default_ttl, exited, session, seqno,
                   seen_messages, stats, started>>

process_hello(n) ==
    /\ impl = "PeerNode"
    /\ \E p \in Inbound(n, "HELLO") : Control(n, p.msg, Taken(p))
    /\ UNCHANGED loop

handle_hello(n) ==
    /\ impl = "Peer"
    /\ \E p \in Inbound(n, "HELLO") : Control(n, p.msg, Taken(p))
    /\ UNCHANGED loop

process_bye(n) ==
    /\ impl = "PeerNode"
    /\ \E p \in Inbound(n, "BYE") : Control(n, p.msg, Taken(p))
    /\ UNCHANGED loop

handle_bye(n) ==
    /\ impl = "Peer"
    /\ \E p \in Inbound(n, "BYE") : Control(n, p.msg, Taken(p))
    /\ UNCHANGED loop

\* the control plane alone, on symmetric tables: nodes greet neighbours, while
\* fewer than MaxHellos messages were sent, leave, and process both
InitTable ==
    /\ InitWith(Impls, {DefaultTTL}, MaxRepeats)
    /\ \A n \in Nodes : DOMAIN keys[n] = {}
    /\ Symmetric

NextTable ==
    \E n \in Nodes :
        \/ /\ BagCardinality(wire) < MaxHellos
           /\ \E i \in 1 .. NumNodes + MaxRepeats : send_hello(n, i)
        \/ send_bye(n)
        \/ process_hello(n)
        \/ handle_hello(n)
        \/ process_bye(n)
        \/ handle_bye(n)

SpecTable == InitTable /\ [][NextTable]_vars

-----------------------------------------------------------------------------
(* handle_connection, statement by statement, on the node's event loop *)

\* asyncio runs one coroutine at a time: a task created with create_task
\* starts only once the running coroutine has suspended or returned
MayRunAnytime(n) == TRUE

MayRun(n) == running[n] = Idle

Handler(i) == [kind |-> "conn", id |-> i]

FreeSlots(n) == {i \in 1 .. MaxConns : conns[n][i].pc = "free"}

\* a finished handler whose task has run leaves nothing behind
Retire(c) == IF c.pc = "done" /\ c.task # "ready" THEN NoConnection ELSE c

\* the lines peers have written to node n, not yet read
Lines(n) == {p \in BagToSet(net) : p.dst = n}

\* start_server's callback: a peer connected and wrote its line; the handler
\* coroutine is created, suspended in reader.readline()
accept(n) ==
    /\ n \notin exited
    /\ FreeSlots(n) # {}
    /\ \E p \in Lines(n) :
         LET i == CHOOSE j \in FreeSlots(n) : \A k \in FreeSlots(n) : j <= k
         IN /\ conns' = [conns EXCEPT ![n][i] =
                            [NoConnection EXCEPT !.msg = p.msg, !.pc = "readline"]]
            /\ net' = net (-) Taken(p)
    /\ UNCHANGED <<impl, call, neighbours, keys, default_ttl, exited, tasks, running,
                   session, seqno, seen_messages, stats, started, out, wire>>

ConnStep(n, i, pc, c, holder) ==
    /\ n \notin exited
    /\ conns[n][i].pc = pc
    /\ conns' = [conns EXCEPT ![n][i] = Retire(c)]
    /\ running' = [running EXCEPT ![n] = holder]
    /\ UNCHANGED <<impl, call, neighbours, keys, default_ttl, exited, tasks,
                   session, seqno, seen_messages, stats, started, out, wire, net>>

\* data = await reader.readline(); message = Message(data.decode(), addr)
conn_read(n, i) ==
    /\ running[n] = Idle
    /\ conns[n][i].line = NoLine
    /\ ConnStep(n, i, "readline", [conns[n][i] EXCEPT !.pc = "create_task"], Handler(i))

\* asyncio.create_task(self.process_message(message))
conn_create_task(n, i) ==
    /\ running[n] = Handler(i)
    /\ ConnStep(n, i, "create_task",
                [conns[n][i] EXCEPT !.pc = "write", !.task = "ready"], Handler(i))

\* writer.write(message.create_response().encode())
conn_write(n, i) ==
    /\ running[n] = Handler(i)
    /\ ConnStep(n, i, "write",
                [conns[n][i] EXCEPT !.pc = "drain",
                                    !.reply = create_response(conns[n][i].msg)],
                Handler(i))

\* await writer.drain(): returns at once, or suspends until the buffer drains
conn_drain(n, i) ==
    /\ running[n] = Handler(i)
    /\ \/ ConnStep(n, i, "drain", [conns[n][i] EXCEPT !.pc = "close"], Handler(i))
       \/ ConnStep(n, i, "drain", [conns[n][i] EXCEPT !.pc = "drained"], Idle)

conn_resume(n, i) ==
    /\ running[n] = Idle
    /\ ConnStep(n, i, "drained", [conns[n][i] EXCEPT !.pc = "close"], Handler(i))

\* writer.close(); await writer.wait_closed()
conn_close(n, i) ==
    /\ running[n] = Handler(i)
    /\ ConnStep(n, i, "close", [conns[n][i] EXCEPT !.pc = "closing"], Idle)

\* wait_closed() returned: the handler returns
conn_return(n, i) ==
    /\ running[n] = Idle
    /\ ConnStep(n, i, "closing", [conns[n][i] EXCEPT !.pc = "done"], Idle)

\* the task made by create_task runs process_message(message); the handlers
\* of HELLO and BYE have no await, so the task runs to its end
run_task(n, i) ==
    /\ MayRun(n)
    /\ conns[n][i].task = "ready"
    /\ conns' = [conns EXCEPT ![n][i] = Retire([conns[n][i] EXCEPT !.task = "done"])]
    /\ Control(n, conns[n][i].msg, EmptyBag)
    /\ UNCHANGED <<tasks, running>>

\* nodes of a connected network greet their neighbours, MaxConns times in all
InitConn ==
    /\ InitWith(Impls, {DefaultTTL}, 0)
    /\ \A n \in Nodes : DOMAIN keys[n] = {}
    /\ Symmetric /\ Connected

NextConn ==
    \E n \in Nodes :
        \/ /\ BagCardinality(wire) < MaxConns
           /\ \E i \in 1 .. NumNodes : send_hello(n, i)
        \/ accept(n)
        \/ \E i \in 1 .. MaxConns :
              \/ conn_read(n, i)
              \/ conn_create_task(n, i)
              \/ conn_write(n, i)
              \/ conn_drain(n, i)
              \/ conn_resume(n, i)
              \/ conn_close(n, i)
              \/ conn_return(n, i)
              \/ run_task(n, i)

SpecConn == InitConn /\ [][NextConn]_vars

\* the inbound connections of the network
Connections == {<<n, i>> : n \in Nodes, i \in 1 .. MaxConns}

(* C17: on every inbound connection carrying a parsable message, the        *)
(* acknowledgement "<origin> <seqno> 1 <OP>_OK" is written before any step  *)
(* of the message's processing runs, and the connection handler never waits *)
(* for the processing task: wherever it is suspended, it can resume as soon *)
(* as the event loop is idle, whether or not the task has run.              *)
C17_AckBeforeProcessing ==
    /\ [][\A c \in Connections :
            LET old == conns[c[1]][c[2]]
                new == conns'[c[1]][c[2]]
            IN (old.task = "ready" /\ new.task # "ready")
                 => /\ old.reply = create_response(old.msg)
                    /\ old.reply.operation = Ack(old.msg.operation)
                    /\ out'.msg = old.msg]_vars
    /\ [](\A c \in Connections :
            LET conn == conns[c[1]][c[2]]
            IN /\ conn.task = "ready" /\ conn.pc # "write"
                    => conn.reply = create_response(conn.msg)
               /\ (running[c[1]] = Idle /\ c[1] \notin exited
                   /\ conn.pc \in {"drained", "closing"})
                    => ENABLED (conn_resume(c[1], c[2]) \/ conn_return(c[1], c[2])))

\* a HELLO was processed while its connection handler, which had already
\* written HELLO_OK, was still waiting for the connection to close
C17_Witness ==
    \E c \in Connections :
        LET conn == conns[c[1]][c[2]]
        IN /\ conn.task = "done"
           /\ conn.pc = "closing"
           /\ conn.msg.operation = "HELLO"
           /\ conn.reply = create_response(conn.msg)
           /\ conn.reply.operation = "HELLO_OK"
           /\ out.node = c[1]
           /\ out.signal = "hello"
           /\ out.msg = conn.msg

-----------------------------------------------------------------------------
(* Peer.handle_depth_first_search as a task, statement by statement *)

\* a handler suspended before its first session read as well
AwaitAlsoBeforeBranch == {"transmit", "branch"}

\* where the handler awaits: self.transmit, on the key hit, the cycle bounce,
\* the backtrack and the descent; nowhere else
AwaitAt == {"transmit"}

\* between the first read of processed / parent / unexplored / current and
\* the last write to them
MidTransition == {"branch"}

Task(i) == [kind |-> "task", id |-> i]

\* the coroutine the loop runs once task i stands at pc
Hold(i, pc) == IF pc \in AwaitAt \cup {"free"} THEN Idle ELSE Task(i)

\* a task resumes from an await when the loop is idle, and otherwise runs on
MayStep(n, i, pc) ==
    /\ tasks[n][i].pc = pc
    /\ running[n] = IF pc \in AwaitAt THEN Idle ELSE Task(i)

Stand(n, i, t) ==
    /\ tasks' = [tasks EXCEPT ![n][i] = IF t.pc = "free" THEN NoTask ELSE t]
    /\ running' = [running EXCEPT ![n] = Hold(i, t.pc)]

FreeTasks(n) == {i \in 1 .. MaxTasks : tasks[n][i].pc = "free"}

\* handle_connection: create_task(self.process_packet(packet)) for a
\* depth-first SEARCH; the task starts when the loop is idle
task_begin(n) ==
    /\ impl = "Peer"
    /\ MayRun(n)
    /\ FreeTasks(n) # {}
    /\ \E p \in Inbound(n, "SEARCH") :
         /\ p.msg.args[1] = "BP"
         /\ LET i == CHOOSE j \in FreeTasks(n) : \A k \in FreeTasks(n) : j <= k
            IN Stand(n, i, [NoTask EXCEPT !.msg = p.msg, !.pc = "lookup"])
         /\ net' = net (-) Taken(p)
    /\ UNCHANGED <<impl, call, neighbours, keys, default_ttl, exited, conns, session,
                   seqno, seen_messages, stats, started, out, wire>>

\* the statements up to should_discard: count, key lookup, TTL
task_lookup(n, i) ==
    /\ MayStep(n, i, "lookup")
    /\ LET packet == tasks[n][i].msg
           verdict == DepthVerdict(n, packet)
       IN  /\ stats' = update_stats(n, "BP")
           /\ seqno' = IF verdict = "value" THEN get_next_seqno(n) ELSE seqno
           /\ CASE verdict = "value" ->
                     /\ Stand(n, i, [tasks[n][i] EXCEPT !.pc = "transmit",
                                        !.signal = "value", !.pkts = Reply(n, packet)])
                     /\ UNCHANGED <<net, wire, out>>
                [] verdict = "ttl" ->
                     /\ Stand(n, i, NoTask)
                     /\ Emit(n, EmptyBag, "ttl", packet, <<>>)
                [] OTHER ->
                     /\ Stand(n, i, [tasks[n][i] EXCEPT !.pc = "session"])
                     /\ UNCHANGED <<net, wire, out>>
    /\ UNCHANGED <<impl, call, neighbours, keys, default_ttl, exited, conns, session,
                   seen_messages, started>>

\* a packet not yet processed opens the session; remove_unexplored(last_hop);
\* processed.add
task_session(n, i) ==
    /\ MayStep(n, i, "session")
    /\ LET packet == tasks[n][i].msg
           last_hop == LastHop(packet)
           fresh == to_unique_tuple(packet) \notin seen_messages[n]
           unexplored0 == IF fresh THEN neighbours[n] ELSE candidates[n]
       IN  /\ parent_node' = [parent_node EXCEPT ![n] = IF fresh THEN last_hop ELSE @]
           /\ candidates' = [candidates EXCEPT ![n] = remove_unexplored(unexplored0, last_hop)]
           /\ active_node' = [active_node EXCEPT ![n] = IF fresh THEN None ELSE @]
           /\ seen_messages' = mark_seen(n, packet)
    /\ Stand(n, i, [tasks[n][i] EXCEPT !.pc = "branch"])
    /\ UNCHANGED <<impl, call, neighbours, keys, default_ttl, exited, conns, seqno,
                   stats, started, net, wire, out>>

\* the four branches: not found, cycle, backtrack, descend
task_branch(n, i) ==
    /\ MayStep(n, i, "branch")
    /\ LET packet == tasks[n][i].msg
           last_hop == LastHop(packet)
           branch == PeerBranch(n, parent_node[n], active_node[n], candidates[n], last_hop)
           step == DepthStep(n, parent_node[n], active_node[n], candidates[n],
                             last_hop, branch)
       IN  /\ parent_node' = [parent_node EXCEPT ![n] = step.parent]
           /\ candidates' = [candidates EXCEPT ![n] = step.cands]
           /\ active_node' = [active_node EXCEPT ![n] = step.active]
           /\ IF branch = "not_found"
              THEN /\ Stand(n, i, NoTask)
                   /\ Emit(n, EmptyBag, branch, packet, <<>>)
              ELSE /\ Stand(n, i, [tasks[n][i] EXCEPT !.pc = "transmit",
                                      !.signal = branch,
                                      !.pkts = Packets(step.dsts, forward_message(packet, n))])
                   /\ UNCHANGED <<net, wire, out>>
    /\ UNCHANGED <<impl, call, neighbours, keys, default_ttl, exited, conns, seqno,
                   seen_messages, stats, started>>

\* transmit: the connection is open, the line is written
task_transmit(n, i) ==
    /\ MayStep(n, i, "transmit")
    /\ Stand(n, i, NoTask)
    /\ Emit(n, EmptyBag, tasks[n][i].signal, tasks[n][i].msg, tasks[n][i].pkts)
    /\ UNCHANGED <<impl, call, neighbours, keys, default_ttl, exited, conns, session,
                   seqno, seen_messages, stats, started>>

\* the menu coroutine starts a search when the loop runs it
menu_depth_first_search(n, key) ==
    /\ impl = "Peer"
    /\ MayRun(n)
    /\ OriginateUpTo(n, "BP", key, MaxConcurrent)

\* handle_value_response, run by its own task
task_value_response(n) ==
    /\ impl = "Peer"
    /\ MayRun(n)
    /\ process_val(n)

InitSteps ==
    /\ InitWith({"Peer"}, {TreeTTL}, 0)
    /\ Symmetric /\ Connected

NextSteps ==
    \E n \in Nodes :
        \/ \E key \in SearchKeys : menu_depth_first_search(n, key)
        \/ task_begin(n)
        \/ task_value_response(n)
        \/ \E i \in 1 .. MaxTasks :
              \/ task_lookup(n, i)
              \/ task_session(n, i)
              \/ task_branch(n, i)
              \/ task_transmit(n, i)

SpecSteps == InitSteps /\ [][NextSteps]_vars

TaskIds == {<<n, i>> : n \in Nodes, i \in 1 .. MaxTasks}

\* what a session transition of node n reads and writes
SessionOf(n) == <<seen_messages[n], parent_node[n], candidates[n], active_node[n]>>

(* C18: access to the depth-first session is serialized.  A task of         *)
(* Peer.handle_depth_first_search that is between its first read of the     *)
(* seen-set and session and its last write to them is the coroutine its     *)
(* node's event loop is running, so it is not suspended there; a node has   *)
(* at most one such task, and while a task stays there nothing changes its  *)
(* node's seen-set or session.                                              *)
C18_SessionSerialized ==
    /\ [](\A t \in TaskIds :
            tasks[t[1]][t[2]].pc \in MidTransition => running[t[1]] = Task(t[2]))
    /\ [](\A t \in TaskIds, u \in TaskIds :
            (/\ t[1] = u[1]
             /\ tasks[t[1]][t[2]].pc \in MidTransition
             /\ tasks[u[1]][u[2]].pc \in MidTransition) => t = u)
    /\ [][\A t \in TaskIds :
            (/\ tasks[t[1]][t[2]].pc \in MidTransition
             /\ tasks'[t[1]][t[2]] = tasks[t[1]][t[2]])
               => SessionOf(t[1])' = SessionOf(t[1])]_vars

\* two depth-first messages handled concurrently at one node: the task of
\* one awaits its transmit while the task of the other is mid-transition
C18_Witness ==
    \E n \in Nodes, i \in 1 .. MaxTasks, j \in 1 .. MaxTasks :
        /\ tasks[n][i].pc = "transmit"
        /\ tasks[n][i].signal \in {"cycle", "backtrack", "descend"}
        /\ tasks[n][j].pc \in MidTransition
        /\ to_unique_tuple(tasks[n][i].msg) # to_unique_tuple(tasks[n][j].msg)

-----------------------------------------------------------------------------
(* HELLO and BYE processed: what the step just taken did to the table *)

HandledControl(operation) ==
    /\ out'.node \in Nodes
    /\ out'.signal \in {"hello", "bye"}
    /\ out'.msg.operation = operation
    /\ [dst |-> out'.node, msg |-> out'.msg] \in BagToSet(net)

Occurrences(table, x) == Cardinality({i \in 1 .. Len(table) : table[i] = x})

(* C19: processing HELLO from an origin already in the neighbour table      *)
(* leaves the table unchanged, from an unknown origin appends it at the     *)
(* end; after HELLO from an origin, however many came before, the table     *)
(* holds that origin exactly once.                                          *)
C19_HelloIdempotent ==
    [][HandledControl("HELLO")
        => LET old == neighbours[out'.node]
               new == neighbours'[out'.node]
               origin == out'.msg.origin
           IN /\ Contains(old, origin) => new = old
              /\ ~Contains(old, origin) => new = Append(old, origin)
              /\ Occurrences(new, origin) = 1]_vars

(* C20: processing BYE removes the origin from the neighbour table when it  *)
(* is there, keeping the other entries in their order, and changes nothing  *)
(* when it is not; a second BYE from the same origin changes nothing more.  *)
C20_ByeRemoves ==
    [][HandledControl("BYE")
        => LET old == neighbours[out'.node]
               new == neighbours'[out'.node]
               origin == out'.msg.origin
           IN /\ ~Contains(new, origin)
              /\ new = SelectSeq(old, LAMBDA x : x # origin)
              /\ ~Contains(old, origin) => new = old
              /\ bye_update(new, origin) = new]_vars

-----------------------------------------------------------------------------
(* The wire format: src/message.py Message.__init__ and __str__,            *)
(* src/utils.py parse_address and address_to_string.  A text is a sequence  *)
(* of characters; a host name counts as one character.  A line is a         *)
(* sequence of texts and blanks.                                            *)

Blank == <<" ">>

DigitChars == <<"0", "1", "2", "3", "4", "5", "6", "7", "8", "9">>
Digits == Range(DigitChars)
DigitValue(c) == (CHOOSE i \in 1 .. 10 : DigitChars[i] = c) - 1

Raised(error) == [ok |-> FALSE, error |-> error]
Returned(value) == [ok |-> TRUE, value |-> value]

RECURSIVE Unsigned(_)
Unsigned(text) ==
    IF text = <<>> THEN 0
    ELSE 10 * Unsigned(ButLast(text)) + DigitValue(Last(text))

\* int(text): an optional sign, then digits, leading zeros allowed
int(text) ==
    LET signed == text # <<>> /\ Head(text) \in {"+", "-"}
        body == IF signed THEN Tail(text) ELSE text
    IN  IF body = <<>> \/ \E i \in 1 .. Len(body) : body[i] \notin Digits
        THEN Raised("ValueError")
        ELSE Returned(IF signed /\ Head(text) = "-" THEN 0 - Unsigned(body)
                      ELSE Unsigned(body))

\* str(i), as an f-string formats an integer
RECURSIVE str(_)
str(i) ==
    IF i < 0 THEN <<"-">> \o str(0 - i)
    ELSE IF i < 10 THEN <<DigitChars[i + 1]>>
    ELSE str(i \div 10) \o <<DigitChars[(i % 10) + 1]>>

\* socket.getaddrinfo: the IPv4 address a host name resolves to
Loopback == "127.0.0.1"
Hosts == {Loopback, "localhost", "nohost"}
getaddrinfo(host) ==
    IF host \in {Loopback, "localhost"} THEN Returned(Loopback)
    ELSE Raised("gaierror")

\* parse_address: "host:port" to (ip, port); every failure is a ValueError
parse_address(text) ==
    LET colons == {i \in 1 .. Len(text) : text[i] = ":"}
    IN  IF Cardinality(colons) # 1 THEN Raised("ValueError")
        ELSE LET at == CHOOSE i \in colons : TRUE
                 host == SubSeq(text, 1, at - 1)
                 port == int(SubSeq(text, at + 1, Len(text)))
             IN  IF Len(host) # 1 \/ ~port.ok THEN Raised("ValueError")
                 ELSE IF ~getaddrinfo(host[1]).ok THEN Raised("ValueError")
                 ELSE Returned(<<getaddrinfo(host[1]).value, port.value>>)

address_to_string(address) == <<address[1], ":">> \o str(address[2])

\* str.upper on the operation, one word to a character
UpperWord(w) ==
    CASE w = "hello" -> "HELLO"
      [] w = "search" -> "SEARCH"
      [] w = "Val" -> "VAL"
      [] w = "bye" -> "BYE"
      [] OTHER -> w

upper(text) == [i \in 1 .. Len(text) |-> UpperWord(text[i])]

\* str.split(): the texts between the blanks
split(line) == SelectSeq(line, LAMBDA t : t # Blank)

\* ' '.join(texts)
RECURSIVE join(_)
join(texts) ==
    IF Len(texts) <= 1 THEN texts
    ELSE <<Head(texts), Blank>> \o join(Tail(texts))

\* Message.__init__: the message a line parses to, or the error raised
Message(line) ==
    LET parts == split(line)
    IN  IF parts = <<>> THEN Raised("IndexError")
        ELSE IF ~parse_address(parts[1]).ok THEN Raised("ValueError")
        ELSE IF Len(parts) < 2 THEN Raised("IndexError")
        ELSE IF ~int(parts[2]).ok THEN Raised("ValueError")
        ELSE IF Len(parts) < 3 THEN Raised("IndexError")
        ELSE IF ~int(parts[3]).ok THEN Raised("ValueError")
        ELSE IF Len(parts) < 4 THEN Raised("IndexError")
        ELSE Returned([origin |-> parse_address(parts[1]).value,
                       seqno |-> int(parts[2]).value,
                       ttl |-> int(parts[3]).value,
                       operation |-> upper(parts[4]),
                       args |-> SubSeq(parts, 5, Len(parts))])

\* a serialization that leaves the arguments out
StrWithoutArgs(m) ==
    join(<<address_to_string(m.origin), str(m.seqno), str(m.ttl), m.operation>>)

\* Message.__str__
Message_str(m) ==
    join(<<address_to_string(m.origin), str(m.seqno), str(m.ttl), m.operation>>
         \o m.args)

\* the lines parsed: four fields, arguments, a blank more here and there
AddressTexts ==
    {<<h, ":">> \o p : h \in Hosts, p \in {<<"5", "0", "0", "1">>, <<"0", "7">>}}
        \cup {<<Loopback>>, <<Loopback, ":", "x">>}
NumberTexts == {<<"1">>, <<"0", "1">>, <<"1", "0", "0">>, <<"-", "1">>, <<"+", "2">>, <<"x">>}
OperationTexts == {<<"HELLO">>, <<"hello">>, <<"search">>, <<"VAL_OK">>}
ArgumentTexts == {<<"FL">>, <<"0", "7">>}

Padded(texts) == {join(texts), <<Blank>> \o join(texts),
                  IF texts = <<>> THEN <<>> ELSE <<Head(texts), Blank>> \o join(texts)}

InputLines ==
    UNION {Padded(<<a, n, t, o>> \o args) :
             a \in AddressTexts, n \in NumberTexts, t \in {<<"3">>, <<"0", "3">>, <<"y">>},
             o \in OperationTexts, args \in ListsUpTo(ArgumentTexts, MaxArgs)}
      \cup UNION {Padded(l) : l \in ListsUpTo({<<Loopback, ":", "7">>, <<"1">>}, 3)}

\* parse(serialize(m)) for the message m that line parses to
round_trip(line) ==
    LET first == Message(line)
    IN  [first |-> first,
         text |-> IF first.ok THEN Message_str(first.value) ELSE <<>>,
         second |-> IF first.ok THEN Message(Message_str(first.value))
                    ELSE Raised("none")]

RoundTrip == Apply("round_trip", round_trip(call.arg))

InitCodec ==
    /\ Quiet
    /\ \E line \in InputLines : call = [op |-> "input", arg |-> line, result |-> <<>>]

NextCodec == RoundTrip

SpecCodec == InitCodec /\ [][NextCodec]_vars

(* C21: round trip.  For every message m that a line parses to (origin in   *)
(* canonical ip:port form, integer seqno and ttl, upper-case operation, any *)
(* argument list), parsing the serialization of m gives a message equal to  *)
(* m in origin, seqno, ttl, operation and args.                             *)
C21_RoundTrip ==
    (call.op = "round_trip" /\ call.result.first.ok)
        => /\ call.result.second.ok
           /\ call.result.second.value.origin = call.result.first.value.origin
           /\ call.result.second.value.seqno = call.result.first.value.seqno
           /\ call.result.second.value.ttl = call.result.first.value.ttl
           /\ call.result.second.value.operation = call.result.first.value.operation
           /\ call.result.second.value.args = call.result.first.value.args

\* a line with a host name, a leading zero, a lower-case operation, two
\* arguments and a doubled blank parsed, and its message, whose serialization
\* is another line, came back from the round trip
C21_Witness ==
    /\ call.op = "round_trip"
    /\ call.result.first.ok
    /\ call.result.text # call.arg
    /\ call.result.first.value.origin = <<Loopback, 7>>
    /\ call.result.first.value.seqno = 1
    /\ call.result.first.value.operation = <<"SEARCH">>
    /\ Len(call.result.first.value.args) = 2
    /\ Len(call.arg) > Len(call.result.text)
    /\ call.result.second = call.result.first

-----------------------------------------------------------------------------
(* The default TTL: menu option 6 *)

\* the integers a user types at the prompt
TTLInputs == -1 .. MaxTTL

\* the configured TTL after the operation, given the value typed
SetTTL(n, value, signal) ==
    /\ n \notin exited
    /\ default_ttl' = [default_ttl EXCEPT ![n] = value]
    /\ Emit(n, EmptyBag, signal, NoMessage, <<>>)
    /\ UNCHANGED <<impl, neighbours, keys, exited, loop, call, session, seqno,
                   seen_messages, stats, started>>

\* PeerNode.change_default_ttl: tests the value, then assigns
change_default_ttl(n, new_ttl) ==
    /\ impl = "PeerNode"
    /\ IF new_ttl > 0
       THEN SetTTL(n, new_ttl, "ttl_set")
       ELSE SetTTL(n, default_ttl[n], "ttl_error")

\* Peer.set_default_ttl: assigns, then tests the value assigned
set_default_ttl(n, new_ttl) ==
    /\ impl = "Peer"
    /\ SetTTL(n, new_ttl, IF new_ttl < 1 THEN "ttl_error" ELSE "ttl_set")

InitTTL ==
    /\ InitWith(Impls, {DefaultTTL}, 0)
    /\ Symmetric /\ Connected
    /\ \A n \in Nodes : DOMAIN keys[n] = {}

\* the control layer: the user sets the TTL and starts flood searches
NextTTL ==
    \E n \in Nodes :
        \/ \E new_ttl \in TTLInputs : change_default_ttl(n, new_ttl)
        \/ \E new_ttl \in TTLInputs : set_default_ttl(n, new_ttl)
        \/ \E key \in SearchKeys : new_search(n, "FL", key)
        \/ \E key \in SearchKeys : start_flood_search(n, key)

SpecTTL == InitTTL /\ [][NextTTL]_vars

(* C22: a TTL of zero or less is rejected with an error and leaves the      *)
(* default TTL as it was: the default TTL is positive in every reachable    *)
(* state and every SEARCH originated carries ttl >= 1.                      *)
C22_DefaultTTLPositive ==
    /\ \A n \in Nodes : default_ttl[n] > 0
    /\ \A p \in BagToSet(wire) :
          (p.msg.operation = "SEARCH" /\ p.src = p.msg.origin /\ p.msg.args[4] = FirstHop)
             => p.msg.ttl >= 1

-----------------------------------------------------------------------------
(* send_message / transmit: what the sender makes of the peer's answer *)

\* Message.create_response, as the line written to the connection
create_response_line(m) ==
    join(<<address_to_string(m.origin), str(m.seqno), <<"1">>, m.operation \o <<"_OK">>>>)

\* the messages a node sends
SentMessages == {Message(l).value : l \in {k \in InputLines : Message(k).ok}}

\* what reader.read(100) returns: the acknowledgement of the message sent,
\* that of another message, nothing (the peer closed the connection without
\* answering, as when its process ends first), or a line that is no message
Responses(m) ==
    {create_response_line(m),
     create_response_line([m EXCEPT !.operation = <<"PING">>]),
     create_response_line([m EXCEPT !.seqno = m.seqno + 1]),
     <<>>,
     <<Blank>>,
     <<<<Loopback, ":", "7">>, Blank, <<"1">>, Blank, <<"1">>>>,
     <<<<"nohost", ":", "7">>, Blank, <<"1">>, Blank, <<"1">>, Blank, m.operation \o <<"_OK">>>>}

\* send_message(address, message): the connection is refused, or response is
\* read; only ConnectionRefusedError is caught
send_message(message, refused, response) ==
    IF refused THEN Returned(FALSE)
    ELSE IF ~Message(response).ok THEN Message(response)
    ELSE Returned(Message(response).value.operation = message.operation \o <<"_OK">>)

SendMessage ==
    Apply("send_message",
          send_message(call.arg.message, call.arg.refused, call.arg.response))

InitSend ==
    /\ Quiet
    /\ \E m \in SentMessages, refused \in BOOLEAN :
         \E response \in IF refused THEN {<<>>} ELSE Responses(m) :
            call = [op |-> "input",
                    arg |-> [message |-> m, refused |-> refused, response |-> response],
                    result |-> <<>>]

NextSend == SendMessage

SpecSend == InitSend /\ [][NextSend]_vars

\* the response is a message whose operation is that of message with _OK
Acknowledges(response, message) ==
    /\ Message(response).ok
    /\ Message(response).value.operation = message.operation \o <<"_OK">>

(* C23: send_message returns true exactly when the response is an           *)
(* acknowledgement whose operation is "<sent operation>_OK"; when the       *)
(* connection is refused, and on every other response (another operation,   *)
(* an empty or unparsable acknowledgement), it returns false and raises     *)
(* nothing.                                                                 *)
C23_SendReturnsBoolean ==
    call.op = "send_message"
        => /\ call.result.ok
           /\ call.result.value =
                (~call.arg.refused /\ Acknowledges(call.arg.response, call.arg.message))

-----------------------------------------------------------------------------
(* handle_connection on the line a client wrote: Message(data.decode(), addr) *)

MaxOpenLines == 1

\* the address of node n as it is written in a message
AddressText(n) == <<Loopback, ":">> \o str(n)

\* lines no node writes: too few fields, an empty line, an origin that does
\* not resolve or has no port, a sequence number or a ttl that is no integer,
\* and well-formed lines with an operation the protocol does not have
MalformedLines ==
    {<<Blank>>,
     join(<<<<Loopback>>, <<"1">>, <<"1">>, <<"HELLO">>>>),
     join(<<AddressText(NumNodes), <<"1">>, <<"1">>>>),
     join(<<<<"nohost", ":">> \o str(NumNodes), <<"1">>, <<"1">>, <<"HELLO">>>>),
     join(<<AddressText(NumNodes), <<"x">>, <<"1">>, <<"HELLO">>>>),
     join(<<AddressText(NumNodes), <<"1">>, <<"y">>, <<"BYE">>>>)}

UnknownLines ==
    {join(<<AddressText(NumNodes), <<"1">>, <<"1">>, <<"PING">>>>)}

ClientLines == MalformedLines \cup UnknownLines

\* a parse that takes every line for a message
ReceivedLenient(line) ==
    IF Message(line).ok THEN Message(line)
    ELSE Returned([origin |-> <<Loopback, None>>, seqno |-> 0, ttl |-> 0,
                   operation |-> <<"NONE">>, args |-> <<>>])

\* message = Message(data.decode(), addr)
Received(line) == Message(line)

\* the message of a line without arguments, with the origin as a node
AsMessage(m) ==
    [origin |-> m.origin[2], seqno |-> m.seqno, ttl |-> m.ttl,
     operation |-> m.operation[1], args |-> <<>>]

OpenLines == {c \in Nodes \X (1 .. MaxConns) : conns[c[1]][c[2]].line # NoLine}

\* a client connects to node n and writes line, while fewer than MaxOpenLines
\* such connections are open
connect(n, line) ==
    /\ n \notin exited
    /\ FreeSlots(n) # {}
    /\ Cardinality(OpenLines) < MaxOpenLines
    /\ LET i == CHOOSE j \in FreeSlots(n) : \A k \in FreeSlots(n) : j <= k
       IN conns' = [conns EXCEPT ![n][i] =
                        [NoConnection EXCEPT !.line = line, !.pc = "readline"]]
    /\ UNCHANGED <<impl, call, neighbours, keys, default_ttl, exited, tasks, running,
                   session, seqno, seen_messages, stats, started, out, wire, net>>

\* data = await reader.readline(); message = Message(data.decode(), addr):
\* an error raised by Message ends the handler coroutine there
line_read(n, i) ==
    /\ n \notin exited
    /\ running[n] = Idle
    /\ conns[n][i].pc = "readline"
    /\ conns[n][i].line # NoLine
    /\ LET received == Received(conns[n][i].line)
       IN IF received.ok
          THEN /\ conns' = [conns EXCEPT ![n][i] =
                               [@ EXCEPT !.msg = AsMessage(received.value),
                                         !.pc = "create_task"]]
               /\ running' = [running EXCEPT ![n] = Handler(i)]
               /\ UNCHANGED out
          ELSE /\ conns' = [conns EXCEPT ![n][i] = NoConnection]
               /\ running' = [running EXCEPT ![n] = Idle]
               /\ out' = [node |-> n, signal |-> received.error, msg |-> NoMessage,
                          sent |-> <<>>]
    /\ UNCHANGED <<impl, call, neighbours, keys, default_ttl, exited, tasks,
                   session, seqno, seen_messages, stats, started, wire, net>>

\* the task made by create_task runs process_message for an operation that
\* is not in its table
run_unknown(n, i) ==
    /\ MayRun(n)
    /\ conns[n][i].task = "ready"
    /\ conns' = [conns EXCEPT ![n][i] = Retire([conns[n][i] EXCEPT !.task = "done"])]
    /\ unknown_operation(n, conns[n][i].msg, EmptyBag)
    /\ UNCHANGED <<tasks, running>>

\* a tree-shaped network whose nodes greet each other once in all, and
\* clients that write lines of their own, naming node NumNodes as origin, to
\* the other nodes (Peer.handle_connection and process_packet are statement
\* for statement those of PeerNode)
InitLines ==
    /\ InitWith({"PeerNode"}, {DefaultTTL}, 0)
    /\ \A n \in Nodes : DOMAIN keys[n] = {}
    /\ IsTree

NextLines ==
    \E n \in Nodes :
        \/ /\ BagCardinality(wire) < MaxOpenLines
           /\ \E i \in 1 .. NumNodes : send_hello(n, i)
        \/ n # NumNodes /\ \E line \in ClientLines : connect(n, line)
        \/ accept(n)
        \/ \E i \in 1 .. MaxConns :
              \/ conn_read(n, i)
              \/ line_read(n, i)
              \/ conn_create_task(n, i)
              \/ conn_write(n, i)
              \/ conn_drain(n, i)
              \/ conn_resume(n, i)
              \/ conn_close(n, i)
              \/ conn_return(n, i)
              \/ run_task(n, i)
              \/ run_unknown(n, i)

SpecLines == InitLines /\ [][NextLines]_vars

\* the connection handlers of the network that read a line which is no message
Failing ==
    {c \in OpenLines : /\ conns[c[1]][c[2]].pc = "readline"
                       /\ ~Message(conns[c[1]][c[2]].line).ok}

(* C26: a malformed inbound line (fewer than 4 tokens, an origin that does  *)
(* not resolve, a sequence number or ttl that is no integer) raises a parse *)
(* error in its own connection handler only: the handler ends with no       *)
(* acknowledgement written and no processing task created, the node's state *)
(* and every other connection are as before, and the event loop is free to  *)
(* run the other handlers.                                                  *)
C26_MalformedLineDropped ==
    /\ [][\A c \in Failing :
            conns'[c[1]][c[2]] # conns[c[1]][c[2]]
                => /\ conns'[c[1]][c[2]] = NoConnection
                   /\ conns' = [conns EXCEPT ![c[1]][c[2]] = NoConnection]
                   /\ out'.node = c[1]
                   /\ out'.signal \in {"IndexError", "ValueError"}
                   /\ out'.sent = <<>>
                   /\ running'[c[1]] = Idle
                   /\ UNCHANGED <<neighbours, keys, default_ttl, seqno, seen_messages,
                                  session, stats, net, wire, exited, tasks>>]_vars
    /\ [](\A c \in OpenLines :
            LET conn == conns[c[1]][c[2]]
            IN ~Message(conn.line).ok
                  => conn.pc = "readline" /\ conn.task = "none" /\ conn.reply = NoMessage)

\* a malformed line was read and dropped at a node that is serving the HELLO
\* of a neighbour on another connection
C26_Witness ==
    /\ out.signal \in {"IndexError", "ValueError"}
    /\ \E i \in 1 .. MaxConns :
          /\ conns[out.node][i].msg.operation = "HELLO"
          /\ conns[out.node][i].pc \in {"readline", "drained", "closing"}
    /\ OpenLines = {}

(* C27: a message whose operation is none of HELLO, SEARCH, VAL, BYE is     *)
(* logged and dropped: processing it sends nothing, and leaves the          *)
(* neighbour table, the seen-set, the sequence counter, the statistics and  *)
(* the depth-first session unchanged.                                       *)
C27_UnknownOperationDropped ==
    [][\A c \in Connections :
         LET old == conns[c[1]][c[2]]
             new == conns'[c[1]][c[2]]
         IN (old.task = "ready" /\ new.task # "ready" /\ old.msg.operation \notin Operations)
              => /\ out' = [node |-> c[1], signal |-> "unknown", msg |-> old.msg,
                            sent |-> <<>>]
                 /\ UNCHANGED <<neighbours, seen_messages, seqno, stats, session,
                                keys, default_ttl, net, wire>>]_vars

\* a PING was processed and logged at a node with neighbours
C27_Witness ==
    /\ out.signal = "unknown"
    /\ out.msg.operation = "PING"
    /\ out.sent = <<>>
    /\ neighbours[out.node] # <<>>

-----------------------------------------------------------------------------
(* C24: a search started for a key the node itself holds is answered from   *)
(* the local store: no message is sent, the sequence number does not        *)
(* advance, and the seen-set and the depth-first session stay as they were; *)
(* so no node ever originates a SEARCH for a key of its own.                *)
C24_LocalHitQuiet ==
    /\ [][out'.signal = "local" /\ started' # started
            => /\ out'.sent = <<>>
               /\ UNCHANGED <<net, wire, seqno, seen_messages, session>>]_vars
    /\ [](\A w \in BagToSet(wire) :
            (w.msg.operation = "SEARCH" /\ w.src = w.msg.origin /\ w.msg.args[4] = FirstHop)
                => ~has_key(w.src, w.msg.args[3]))

\* a node with neighbours has started a search for a key it holds
C24_Witness ==
    /\ out.signal = "local"
    /\ started > 0
    /\ \E key \in SearchKeys : has_key(out.node, key)
    /\ neighbours[out.node] # <<>>

-----------------------------------------------------------------------------
(* C25: no error is fatal: a random-walk or depth-first search started for  *)
(* a key the node does not hold, with an empty neighbour table, raises no   *)
(* error out of the control operation; every search started either answers *)
(* locally or sends its first message.                                      *)
C25_SearchNeverRaises ==
    [][started' # started => out'.signal \in {"local", "search"}]_vars

-----------------------------------------------------------------------------
(* Statistics: the hop samples and their summary *)

MaxSamples == 3
HopCounts == {2, 4, 6}

\* sum(hops)
RECURSIVE sum(_)
sum(hops) == IF hops = <<>> THEN 0 ELSE Head(hops) + sum(Tail(hops))

\* the sum of squares of the samples
sum_of_squares(hops) == sum([i \in 1 .. Len(hops) |-> hops[i] * hops[i]])

\* the largest r with r * r <= x, sought between low and high (the square
\* of high fits 32 bits)
RECURSIVE RootBetween(_, _, _)
RootBetween(x, low, high) ==
    IF low >= high THEN low
    ELSE LET mid == (low + high + 1) \div 2
         IN IF mid * mid <= x THEN RootBetween(x, mid, high)
            ELSE RootBetween(x, low, mid - 1)

\* round(scale * num / den) and round(scale * (num / den) ** 0.5), as a
\* number of scale-ths: what a format with that many decimals prints
Rounded(num, den, scale) == <<(2 * scale * num + den) \div (2 * den), scale>>
RoundedRoot(num, den, scale) ==
    LET x == (4 * scale * scale * num) \div den
    IN <<(RootBetween(x, 0, IF x < 46340 THEN x ELSE 46340) + 1) \div 2, scale>>

\* the format ".3": three significant digits (values below 100)
Significant(num, den) ==
    IF num < den THEN 1000 ELSE IF num < 10 * den THEN 100 ELSE 10

NotAvailable == [text |-> "N/A", mean |-> <<>>, stdev |-> <<>>]

\* a summary that divides the squared deviations by n - 1
SampleStats(hops) ==
    IF hops = <<>> THEN NotAvailable
    ELSE LET n == Len(hops)
             S == sum(hops)
             D == sum([i \in 1 .. n |-> (n * hops[i] - S) * (n * hops[i] - S)])
             m == IF n = 1 THEN 1 ELSE n - 1
         IN [text |-> "avg (dp stdev)",
             mean |-> Rounded(S, n, Significant(S, n)),
             stdev |-> RoundedRoot(D, n * n * m, Significant(D, n * n * m))]

\* Statistics.calculate_stats: avg = sum(hops) / len(hops), variance =
\* sum((x - avg) ** 2) / len(hops) with (x - avg) = (n x - S) / n,
\* f"{avg:.3} (dp {stdev:.3})"
calculate_stats(hops) ==
    IF hops = <<>> THEN NotAvailable
    ELSE LET n == Len(hops)
             S == sum(hops)
             D == sum([i \in 1 .. n |-> (n * hops[i] - S) * (n * hops[i] - S)])
         IN [text |-> "avg (dp stdev)",
             mean |-> Rounded(S, n, Significant(S, n)),
             stdev |-> RoundedRoot(D, n * n * n, Significant(D, n * n * n))]

\* Metrics.compute_stats: mean = total_hops / samples, variance =
\* total_hops_squared / samples - mean * mean,
\* f"{mean:.3f} (std dev {std_dev:.3f})"
compute_stats(samples, total_hops, total_hops_squared) ==
    IF samples = 0 THEN NotAvailable
    ELSE [text |-> "mean (std dev std_dev)",
          mean |-> Rounded(total_hops, samples, 1000),
          stdev |-> RoundedRoot(samples * total_hops_squared - total_hops * total_hops,
                                samples * samples, 1000)]

\* the line display_stats prints for a mode: get_*_stats in Peer, whose
\* Metrics keep the number of samples, their sum and their sum of squares
summarize(n, mode) ==
    LET hops == stats[n].hops[mode]
    IN IF impl = "PeerNode" THEN calculate_stats(hops)
       ELSE compute_stats(Len(hops), sum(hops),
                          sum_of_squares(hops))

display_stats(n) ==
    /\ call' = [op |-> "display_stats", arg |-> n,
                result |-> [mode \in Modes |-> summarize(n, mode)]]
    /\ UNCHANGED <<impl, neighbours, keys, seqno, default_ttl, seen_messages,
                   session, stats, net, out, wire, started, exited, loop>>

\* a holder answers a search of node n: its VAL, with the hop count of the
\* SEARCH that reached it, is on its way to n
val_sent(holder, n, mode, hop_count) ==
    /\ holder # n
    /\ BagCardinality(wire) < MaxSamples
    /\ Emit(holder, EmptyBag, "value", NoMessage,
            <<[dst |-> n,
               msg |-> ValMessage(holder, seqno[holder], mode, 7, StoredValue(7),
                                  hop_count)]>>)
    /\ seqno' = get_next_seqno(holder)
    /\ UNCHANGED <<config, session, seen_messages, stats, started>>

\* node 1 searches and node NumNodes answers; every node shows its statistics
InitStats ==
    /\ InitWith(Impls, {DefaultTTL}, 0)
    /\ \A n \in Nodes : neighbours[n] = <<>> /\ DOMAIN keys[n] = {}

NextStats ==
    \E n \in Nodes :
        \/ n = 1 /\ \E mode \in Modes, hop_count \in HopCounts :
                        val_sent(NumNodes, n, mode, hop_count)
        \/ process_val(n)
        \/ display_stats(n)

SpecStats == InitStats /\ [][NextStats]_vars

\* summary is "N/A" for the empty sample, and otherwise gives the mean S/n
\* and the population standard deviation sqrt(Q/n - mean^2) of hops, each
\* rounded to the digits printed
Summarizes(summary, hops) ==
    LET n == Len(hops)
        S == sum(hops)
        Q == sum_of_squares(hops)
        m == summary.mean
        d == summary.stdev
    IN IF n = 0 THEN summary = NotAvailable
       ELSE /\ summary # NotAvailable
            /\ (2 * m[1] - 1) * n <= 2 * m[2] * S
            /\ 2 * m[2] * S <= (2 * m[1] + 1) * n
            /\ d[1] > 0 => (2 * d[1] - 1) * (2 * d[1] - 1) * n * n
                              <= 4 * d[2] * d[2] * (n * Q - S * S)
            /\ 4 * d[2] * d[2] * (n * Q - S * S)
                   <= (2 * d[1] + 1) * (2 * d[1] + 1) * n * n

(* C28: the hop sample of a mode holds exactly the hop counts of the VAL    *)
(* replies received for that mode, in order of arrival, and a VAL changes   *)
(* no other mode's sample; the summary is "N/A" for an empty sample and     *)
(* otherwise the mean S/n and the population standard deviation             *)
(* sqrt(Q/n - mean^2); after the flood sample [2, 4, 6] it gives mean 4.00  *)
(* and standard deviation 1.63, within 0.01.                                *)
C28_HopStatistics ==
    /\ [][/\ stats' # stats
             => /\ out'.signal = "val"
                /\ stats' = [stats EXCEPT ![out'.node].hops[out'.msg.args[1]] =
                                              Append(@, out'.msg.args[4])]
          /\ (out' # out /\ out'.signal = "val") => stats' # stats
          /\ call' # call
             => \A mode \in Modes :
                   Summarizes(call'.result[mode], stats[call'.arg].hops[mode])]_vars
    /\ [][(call' # call /\ stats[call'.arg].hops["FL"] = <<2, 4, 6>>)
            => LET summary == call'.result["FL"]
               IN /\ summary.mean[1] = 4 * summary.mean[2]
                  /\ 162 * summary.stdev[2] <= 100 * summary.stdev[1]
                  /\ 100 * summary.stdev[1] <= 164 * summary.stdev[2]]_vars

\* the statistics were displayed at a node whose flood sample is [2, 4, 6]
C28_Witness ==
    /\ call.op = "display_stats"
    /\ stats[call.arg].hops["FL"] = <<2, 4, 6>>
    /\ call.result["FL"] = summarize(call.arg, "FL")
    /\ call.result["RW"] = NotAvailable

-----------------------------------------------------------------------------
(* C29: PeerNode.process_depth_search, at a node that did not originate the *)
(* search, for a SEARCH/BP from relay R whose key is not yet in the         *)
(* seen-set (no key hit, TTL not expired): the node starts a session with   *)
(* parent R, candidates = its neighbours except R and no active node, and   *)
(* continues the search, descending to a candidate or backtracking to R,    *)
(* instead of dropping the message.                                         *)
C29_FreshDepthSession ==
    [][\A n \in Nodes : \A p \in Inbound(n, "SEARCH") :
         LET relay == p.msg.args[2]
             others == SelectSeq(neighbours[n], LAMBDA x : x # relay)
         IN (/\ impl = "PeerNode"
             /\ p.msg.args[1] = "BP"
             /\ p.msg.origin # n
             /\ to_unique_tuple(p.msg) \notin seen_messages[n]
             /\ process_search_message(n, p.msg) = "forward"
             /\ net' = (net (-) Taken(p)) (+) SeqToBag(out'.sent)
             /\ out'.node = n /\ out'.msg = p.msg)
               => /\ parent_node'[n] = relay
                  /\ out'.signal \in {"descend", "backtrack"}
                  /\ Len(out'.sent) = 1
                  /\ IF others = <<>>
                     THEN /\ out'.sent[1].dst = relay
                          /\ candidates'[n] = <<>>
                          /\ active_node'[n] = None
                     ELSE /\ out'.sent[1].dst = Last(others)
                          /\ candidates'[n] = ButLast(others)
                          /\ active_node'[n] = Last(others)]_vars

-----------------------------------------------------------------------------
(* C30: Peer.handle_depth_first_search reports failure only at a node whose *)
(* parent is its own address, for a message that arrived from its active    *)
(* candidate, with its candidate stack empty, and then sends nothing; a     *)
(* node whose parent is another node never reports failure: with an empty   *)
(* stack and no cycle it relays the message to its parent.                  *)
C30_FailureOnlyAtOriginator ==
    [][(/\ impl = "Peer"
        /\ stats' # stats
        /\ out'.msg.operation = "SEARCH"
        /\ out'.msg.args[1] = "BP"
        /\ out'.signal \in {"not_found", "cycle", "backtrack"})
          => LET n == out'.node
                 last_hop == LastHop(out'.msg)
             IN /\ out'.signal = "not_found"
                    => /\ parent_node'[n] = n
                       /\ active_node'[n] = last_hop
                       /\ candidates'[n] = <<>>
                       /\ out'.sent = <<>>
                       /\ wire' = wire
                /\ parent_node'[n] # n => out'.signal # "not_found"
                /\ (/\ parent_node'[n] # n
                    /\ candidates'[n] = <<>>
                    /\ active_node'[n] \in {None, last_hop})
                    => /\ out'.signal = "backtrack"
                       /\ out'.sent = <<[dst |-> parent_node'[n],
                                         msg |-> forward_message(out'.msg, n)]>>]_vars

\* the originator has reported failure after a relay with no candidate left
\* sent the message back to its parent
C30_Witness ==
    /\ impl = "Peer"
    /\ out.signal = "not_found"
    /\ parent_node[out.node] = out.node
    /\ \E w \in BagToSet(wire) :
          /\ w.src # out.node
          /\ parent_node[w.src] = w.dst
          /\ candidates[w.src] = <<>>
          /\ w.msg.args[1] = "BP"

-----------------------------------------------------------------------------
(* C31: within one depth-first session of Peer a node probes each neighbour *)
(* at most once: the relay of every handled message is no longer on the     *)
(* candidate stack, no neighbour enters the stack during the session, the   *)
(* active neighbour is not on the stack, and the neighbour probed next is   *)
(* the last remaining candidate, which becomes active.                      *)
C31_ProbedAtMostOnce ==
    [][(/\ impl = "Peer"
        /\ stats' # stats
        /\ out'.msg.operation = "SEARCH"
        /\ out'.msg.args[1] = "BP"
        /\ out'.signal \in {"not_found", "cycle", "backtrack", "descend"})
          => LET n == out'.node
                 last_hop == LastHop(out'.msg)
                 fresh == to_unique_tuple(out'.msg) \notin seen_messages[n]
                 before == IF fresh THEN neighbours[n] ELSE candidates[n]
                 remaining == remove_unexplored(before, last_hop)
             IN /\ ~Contains(candidates'[n], last_hop)
                /\ ~fresh => Range(candidates'[n]) \subseteq Range(candidates[n])
                /\ active_node'[n] # None => ~Contains(candidates'[n], active_node'[n])
                /\ out'.signal = "descend"
                     => /\ remaining # <<>>
                        /\ active_node'[n] = Last(remaining)
                        /\ candidates'[n] = ButLast(remaining)
                        /\ out'.sent = <<[dst |-> Last(remaining),
                                          msg |-> forward_message(out'.msg, n)]>>]_vars

-----------------------------------------------------------------------------
(* Two depth-first searches of Peer under way at once *)

InitTwo ==
    /\ InitWith({"Peer"}, {TreeTTL}, 0)
    /\ Symmetric /\ Connected

NextTwo ==
    \E n \in Nodes :
        \/ \E key \in SearchKeys : menu_depth_first_search(n, key)
        \/ handle_depth_first_search(n)
        \/ task_value_response(n)

SpecTwo == InitTwo /\ [][NextTwo]_vars

\* the session a node is left with by a message of a search it had not
\* processed, whatever session it held: parent the last hop, the stack its
\* neighbours without the last hop, of which the last is popped as active
SessionFrom(n, last_hop) ==
    LET remaining == remove_unexplored(neighbours[n], last_hop)
    IN IF remaining = <<>>
       THEN <<last_hop, <<>>, None>>
       ELSE <<last_hop, ButLast(remaining), Last(remaining)>>

(* C32: a Peer node holds one depth-first session: a SEARCH/BP of a search  *)
(* it has not processed, or a search it starts, re-initializes parent,      *)
(* candidates and active for the new search whatever session was in         *)
(* progress, and a later message of the earlier search is handled against   *)
(* the session as it then is.                                               *)
C32_OneSession ==
    [][/\ (started' # started /\ out'.signal = "search")
            => LET n == out'.node
               IN /\ parent_node'[n] = n
                  /\ candidates'[n] = ButLast(neighbours[n])
                  /\ active_node'[n] = Last(neighbours[n])
       /\ (/\ stats' # stats
           /\ out'.msg.operation = "SEARCH"
           /\ out'.signal \in {"not_found", "cycle", "backtrack", "descend"})
            => LET n == out'.node
                   last_hop == LastHop(out'.msg)
                   remaining == remove_unexplored(candidates[n], last_hop)
               IN IF to_unique_tuple(out'.msg) \notin seen_messages[n]
                  THEN <<parent_node'[n], candidates'[n], active_node'[n]>>
                          = SessionFrom(n, last_hop)
                  ELSE /\ parent_node'[n] = parent_node[n]
                       /\ out'.signal =
                            PeerBranch(n, parent_node[n], active_node[n], remaining, last_hop)
                       /\ candidates'[n] = IF out'.signal = "descend"
                                           THEN ButLast(remaining) ELSE remaining]_vars

\* a node that started a search of its own while relaying another node's
\* search has handled a message of that earlier search against its own
\* session, and reported the earlier search as failed
C32_Witness ==
    /\ out.signal = "not_found"
    /\ out.msg.origin # out.node
    /\ parent_node[out.node] = out.node
    /\ Cardinality(seen_messages[out.node]) = 2

-----------------------------------------------------------------------------
\* the SEARCH messages of a mode in a bag of packets, with multiplicity
SearchesIn(B, mode) ==
    LET S == {x \in BagToSet(B) : x.msg.operation = "SEARCH" /\ x.msg.args[1] = mode}
    IN SumOver([x \in S |-> CopiesIn(x, B)], S)

\* the SEARCH messages of a mode the nodes have counted
Counted(mode) == SumOver([n \in Nodes |-> stats[n].count[mode]], Nodes)

(* C33: in PeerNode the seen-counter of each search mode equals the number  *)
(* of inbound SEARCH messages of that mode handled so far: it goes up by    *)
(* one for every inbound SEARCH handled, whatever the outcome (duplicate,   *)
(* key hit, TTL drop or relay), and changes at no other time.               *)
C33_SeenCounters ==
    /\ [](impl = "PeerNode"
            => \A mode \in Modes :
                  Counted(mode) + SearchesIn(net, mode) = SearchesIn(wire, mode))
    /\ [][impl = "PeerNode"
            => /\ \A mode \in Modes :
                    HandledSearch(mode)
                       => /\ out'.signal \in {"duplicate", "value", "ttl", "forward",
                                              "no_parent", "not_found", "cycle",
                                              "backtrack", "descend"}
                          /\ stats' = [stats EXCEPT ![out'.node].count[mode] = @ + 1]
               /\ \A n \in Nodes :
                    stats'[n].count # stats[n].count
                       => out'.node = n /\ \E mode \in Modes : HandledSearch(mode)]_vars

\* a node has counted a duplicate, another a key hit, a third message was
\* dropped for its TTL or relayed
C33_Witness ==
    /\ impl = "PeerNode"
    /\ out.signal = "duplicate"
    /\ stats[out.node].count[out.msg.args[1]] >= 2
    /\ \E mode \in Modes : Counted(mode) >= 3

-----------------------------------------------------------------------------
(* Bootstrap of Peer: run() starts the server, then awaits init_neighbors, *)
(* which sends HELLO to each line of the neighbours file in turn           *)

\* the neighbours files: lists of other nodes, no address twice
MaxFileLines == 1

Files(n) == {file \in {t[n] : t \in Topologies("PeerNode", 0)} : Len(file) <= MaxFileLines}

\* the coroutine of run(): slot 1 of the node's tasks; pkts holds the lines
\* of the file not yet greeted
Booted(n) == tasks[n][1].pc # "free"

\* run(): Peer(...), create_task(start_server()), init_neighbors(neighbors)
\* up to its first transmit: the HELLO packet is built once
run(n, file) ==
    /\ ~Booted(n)
    /\ n \notin exited
    /\ tasks' = [tasks EXCEPT ![n][1] =
                    [NoTask EXCEPT !.msg = ControlMessage(n, seqno[n], "HELLO"),
                                   !.pc = "init_neighbors",
                                   !.pkts = file]]
    /\ seqno' = get_next_seqno(n)
    /\ UNCHANGED <<impl, call, neighbours, keys, default_ttl, exited, conns, running,
                   session, seen_messages, stats, started, net, wire, out>>

\* await self.transmit(neighbor, packet): the line's node is not listening
\* and the connection is refused, or the HELLO is delivered and the
\* coroutine waits for the acknowledgement
init_neighbors_transmit(n) ==
    /\ n \notin exited
    /\ tasks[n][1].pc = "init_neighbors"
    /\ tasks[n][1].pkts # <<>>
    /\ LET neighbor == Head(tasks[n][1].pkts)
           packet == tasks[n][1].msg
       IN IF Booted(neighbor) /\ neighbor \notin exited
          THEN /\ tasks' = [tasks EXCEPT ![n][1].pc = "transmit"]
               /\ Emit(n, EmptyBag, "hello_sent", packet, Packets(<<neighbor>>, packet))
          ELSE /\ tasks' = [tasks EXCEPT ![n][1].pkts = Tail(@)]
               /\ Emit(n, EmptyBag, "refused", packet, <<>>)
    /\ UNCHANGED <<impl, call, neighbours, keys, default_ttl, exited, conns, running,
                   session, seqno, seen_messages, stats, started>>

\* transmit returned true: self.neighbors.append(neighbor), no test
init_neighbors_append(n) ==
    /\ n \notin exited
    /\ tasks[n][1].pc = "transmit"
    /\ neighbours' = [neighbours EXCEPT ![n] = Append(@, Head(tasks[n][1].pkts))]
    /\ tasks' = [tasks EXCEPT ![n][1].pkts = Tail(@), ![n][1].pc = "init_neighbors"]
    /\ UNCHANGED <<impl, call, keys, default_ttl, exited, conns, running,
                   session, seqno, seen_messages, stats, started, net, wire, out>>

\* the file is read: run() goes on to show_menu, where the user may leave
menu_exit(n) ==
    /\ tasks[n][1].pc = "init_neighbors"
    /\ tasks[n][1].pkts = <<>>
    /\ send_bye(n)

InitBoot ==
    /\ InitWith({"Peer"}, {DefaultTTL}, 0)
    /\ \A n \in Nodes : neighbours[n] = <<>> /\ DOMAIN keys[n] = {}

NextBoot ==
    \E n \in Nodes :
        \/ \E file \in Files(n) : run(n, file)
        \/ init_neighbors_transmit(n)
        \/ init_neighbors_append(n)
        \/ menu_exit(n)
        \/ handle_hello(n)
        \/ handle_bye(n)

SpecBoot == InitBoot /\ [][NextBoot]_vars

(* C34: the neighbour list of a Peer node never holds the same address     *)
(* twice, after any interleaving of bootstrap, inbound HELLO and inbound    *)
(* BYE.                                                                     *)
C34_NoDuplicateNeighbours ==
    impl = "Peer" => \A n \in Nodes : Repeats(neighbours[n]) = 0

-----------------------------------------------------------------------------
(* get_next_seqno among the coroutines of one PeerNode event loop: the     *)
(* menu's HELLO, SEARCH and BYE, and the VAL reply of a search handler     *)

MaxOriginated == 2

MenuChoices == {"HELLO", "SEARCH", "BYE"}

\* a scheduler that switches coroutines between any two statements
RunsPreempted(n, i, first) == TRUE

\* asyncio switches coroutines only at an await: a coroutine starts or
\* resumes (first) when the loop is idle, and runs on while it holds the loop
Runs(n, i, first) == IF first THEN running[n] = Idle ELSE running[n] = Task(i)

\* create_task takes the first free slot of the loop
FirstFree(n, i) == i \in FreeTasks(n) /\ \A j \in FreeTasks(n) : i <= j

\* the searches chosen at a menu so far: being built, or sent
SearchesBegun ==
    Cardinality({<<n, i>> \in TaskIds : tasks[n][i].signal = "SEARCH"})
    + Cardinality({<<w.msg.origin, w.msg.seqno>> :
                      w \in {v \in BagToSet(wire) : v.msg.operation = "SEARCH"}})

\* display_menu: the user's choice is read, its coroutine is about to run
menu_choice(n, i, operation) ==
    /\ impl = "PeerNode"
    /\ n \notin exited
    /\ started < MaxOriginated
    /\ FirstFree(n, i)
    /\ \A j \in 1 .. MaxTasks : tasks[n][j].signal \notin MenuChoices
    /\ operation = "HELLO" => neighbours[n] # <<>>
    /\ operation = "SEARCH" => /\ ~check_local_key(n, CHOOSE key \in SearchKeys : TRUE)
                                /\ SearchesBegun < MaxSearches
    /\ tasks' = [tasks EXCEPT ![n][i] = [NoTask EXCEPT !.pc = "get_next_seqno",
                                                       !.signal = operation]]
    /\ started' = started + 1
    /\ UNCHANGED <<impl, call, neighbours, keys, default_ttl, exited, conns, running,
                   session, seqno, seen_messages, stats, net, wire, out>>

\* handle_connection: create_task(self.process_message(message)) for a
\* SEARCH; _process_search and process_search_message run up to the reply
\* of a key hit, or to the end when the message is not answered
process_search_task(n, i) ==
    /\ impl = "PeerNode"
    /\ n \notin exited
    /\ Runs(n, i, TRUE)
    /\ FirstFree(n, i)
    /\ \E p \in Inbound(n, "SEARCH") :
         LET message == p.msg
             verdict == process_search_message(n, message)
             new_message == forward_message(message, n)
         IN  /\ stats' = update_stats(n, message.args[1])
             /\ seen_messages' = IF verdict = "duplicate" THEN seen_messages
                                 ELSE mark_seen(n, message)
             /\ tasks' = [tasks EXCEPT ![n][i] =
                             IF verdict = "value"
                             THEN [NoTask EXCEPT !.pc = "get_next_seqno",
                                                 !.signal = "VAL", !.msg = message]
                             ELSE NoTask]
             /\ running' = [running EXCEPT ![n] =
                               IF verdict = "value" THEN Task(i) ELSE Idle]
             /\ Emit(n, Taken(p), verdict, message,
                     IF verdict = "forward"
                     THEN Up(Packets(FloodTargets(n), new_message)) ELSE <<>>)
    /\ UNCHANGED <<impl, call, neighbours, keys, default_ttl, exited, conns,
                   session, seqno, started>>

\* the message a coroutine builds around the sequence number seq
Originated(n, task, seq) ==
    CASE task.signal = "SEARCH" ->
            SearchMessage(n, seq, default_ttl[n], "FL", n,
                          CHOOSE key \in SearchKeys : TRUE, FirstHop)
      [] task.signal = "VAL" ->
            ValMessage(n, seq, task.msg.args[1], task.msg.args[3],
                       keys[n][task.msg.args[3]], task.msg.args[4])
      [] OTHER -> ControlMessage(n, seq, task.signal)

\* the addresses the message goes to: the neighbour picked at the menu for
\* HELLO, the search's origin for VAL, every neighbour for SEARCH and BYE
Addressees(n, task) ==
    CASE task.signal = "HELLO" -> {<<d>> : d \in Range(neighbours[n])}
      [] task.signal = "VAL" -> {<<task.msg.origin>>}
      [] OTHER -> {neighbours[n]}

\* get_next_seqno, first statement: seqno = self.seqno
seqno_read(n, i) ==
    /\ n \notin exited
    /\ Runs(n, i, tasks[n][i].signal \in MenuChoices)
    /\ tasks[n][i].pc = "get_next_seqno"
    /\ \E dsts \in Addressees(n, tasks[n][i]) :
         LET m == Originated(n, tasks[n][i], seqno[n])
         IN tasks' = [tasks EXCEPT ![n][i].msg = m,
                                   ![n][i].pkts = Packets(dsts, m),
                                   ![n][i].pc = "increment"]
    /\ running' = [running EXCEPT ![n] = Task(i)]
    /\ UNCHANGED <<impl, call, neighbours, keys, default_ttl, exited, conns,
                   session, seqno, seen_messages, stats, started, net, wire, out>>

\* get_next_seqno, second statement: self.seqno += 1
seqno_increment(n, i) ==
    /\ n \notin exited
    /\ Runs(n, i, FALSE)
    /\ tasks[n][i].pc = "increment"
    /\ seqno' = get_next_seqno(n)
    /\ tasks' = [tasks EXCEPT ![n][i].pc = "send_message"]
    /\ running' = [running EXCEPT ![n] = Task(i)]
    /\ UNCHANGED <<impl, call, neighbours, keys, default_ttl, exited, conns,
                   session, seen_messages, stats, started, net, wire, out>>

\* the Message is built and handed to send_message, where the coroutine
\* awaits: _new_search marks the search seen first, send_bye ends the process
originated_send(n, i) ==
    /\ n \notin exited
    /\ Runs(n, i, FALSE)
    /\ tasks[n][i].pc = "send_message"
    /\ LET task == tasks[n][i]
       IN /\ Emit(n, EmptyBag, task.signal, task.msg, Up(task.pkts))
          /\ seen_messages' = IF task.signal = "SEARCH" THEN mark_seen(n, task.msg)
                              ELSE seen_messages
          /\ exited' = IF task.signal = "BYE" THEN exited \cup {n} ELSE exited
    /\ tasks' = [tasks EXCEPT ![n][i] = NoTask]
    /\ running' = [running EXCEPT ![n] = Idle]
    /\ UNCHANGED <<impl, call, neighbours, keys, default_ttl, conns,
                   session, seqno, stats, started>>

\* tree-shaped networks of PeerNode, any key stores
InitSeqno ==
    /\ InitWith({"PeerNode"}, {DefaultTTL}, 0)
    /\ IsTree

NextSeqno ==
    \E n \in Nodes :
        \/ \E i \in 1 .. MaxTasks :
              \/ \E operation \in MenuChoices : menu_choice(n, i, operation)
              \/ process_search_task(n, i)
              \/ seqno_read(n, i)
              \/ seqno_increment(n, i)
              \/ originated_send(n, i)
        \/ MayRun(n) /\ process_hello(n)
        \/ MayRun(n) /\ process_bye(n)
        \/ MayRun(n) /\ process_val(n)

SpecSeqno == InitSeqno /\ [][NextSeqno]_vars

\* the coroutines of node n that have read the counter and not yet sent
Building(n) == {i \in 1 .. MaxTasks : tasks[n][i].pc \in {"increment", "send_message"}}

\* the transmissions of messages by their originator, as first built
OriginatedOnWire ==
    {w \in BagToSet(wire) :
        /\ w.src = w.msg.origin
        /\ w.msg.operation = "SEARCH" => w.msg.args[4] = FirstHop}

(* C35: the sequence counter of a PeerNode starts at 1 and never           *)
(* decreases; every originated message (HELLO, SEARCH, VAL reply, BYE)     *)
(* takes the current value and the counter goes up by 1, so no two         *)
(* messages originated by one node carry the same sequence number, even    *)
(* when they are built by coroutines that run concurrently.                *)
C35_SequenceNumbers ==
    /\ [](\A n \in Nodes :
            /\ seqno[n] >= FirstSeqno
            /\ \A i \in Building(n) :
                 /\ tasks[n][i].msg.origin = n
                 /\ tasks[n][i].msg.seqno =
                        IF tasks[n][i].pc = "increment" THEN seqno[n] ELSE seqno[n] - 1
                 /\ \A j \in Building(n) \ {i} :
                        tasks[n][j].msg.seqno # tasks[n][i].msg.seqno
                 /\ \A w \in BagToSet(wire) :
                        w.msg.origin = n => w.msg.seqno < tasks[n][i].msg.seqno)
    /\ [](\A w \in BagToSet(wire) : w.msg.seqno < seqno[w.msg.origin])
    /\ [](\A v, w \in OriginatedOnWire :
            (v.msg.origin = w.msg.origin /\ v.msg.seqno = w.msg.seqno) => v.msg = w.msg)
    /\ [][\A n \in Nodes :
            /\ seqno'[n] \in {seqno[n], seqno[n] + 1}
            /\ seqno'[n] = seqno[n] + 1
                  <=> \E i \in 1 .. MaxTasks :
                         /\ tasks[n][i].pc = "increment"
                         /\ tasks'[n][i].pc = "send_message"
            /\ (out' # out /\ out'.node = n /\ out'.signal \in MenuChoices \cup {"VAL"})
                  => /\ out'.msg.origin = n
                     /\ out'.msg.seqno = seqno[n] - 1
                     /\ \A w \in BagToSet(wire) :
                           w.msg.origin = n => w.msg.seqno < out'.msg.seqno]_vars

\* a handler's VAL reply has gone out with one number while the menu's
\* coroutine, created before it, is still to take its own
C35_Witness ==
    \E n \in Nodes, i \in 1 .. MaxTasks :
        /\ impl = "PeerNode"
        /\ tasks[n][i].pc = "get_next_seqno"
        /\ tasks[n][i].signal \in MenuChoices
        /\ out.node = n
        /\ out.signal = "VAL"
        /\ out.msg.seqno = seqno[n] - 1
        /\ \E w \in OriginatedOnWire : w.src = n /\ w.msg = out.msg

-----------------------------------------------------------------------------
(* Message.to_unique_tuple as a function of the message *)

MaxKeySeqno == 2

\* messages as they arrive: searches of every mode at any ttl, relay port and
\* hop-count, value replies and control messages
KeyedMessages ==
    {SearchMessage(origin, seq, ttl, mode, port, key, hop) :
        origin \in 1 .. 2, seq \in 1 .. MaxKeySeqno, ttl \in 1 .. 2, mode \in Modes,
        port \in 1 .. 2, key \in SearchKeys, hop \in 1 .. 2}
    \cup {ValMessage(origin, seq, mode, key, StoredValue(key), FirstHop) :
        origin \in 1 .. 2, seq \in 1 .. MaxKeySeqno, mode \in Modes, key \in SearchKeys}
    \cup {ControlMessage(origin, seq, operation) :
        origin \in 1 .. 2, seq \in 1 .. MaxKeySeqno, operation \in {"HELLO", "BYE"}}

\* the keys of two messages, and of the copy of the first that relay forwards
unique_tuples(first, second, relay) ==
    [first |-> to_unique_tuple(first),
     second |-> to_unique_tuple(second),
     copy |-> IF first.operation = "SEARCH"
              THEN forward_message(first, relay) ELSE first,
     forwarded |-> IF first.operation = "SEARCH"
                   THEN to_unique_tuple(forward_message(first, relay))
                   ELSE to_unique_tuple(first)]

UniqueTuples ==
    Apply("to_unique_tuple", unique_tuples(call.arg.first, call.arg.second, call.arg.relay))

InitKey ==
    /\ Quiet
    /\ \E first, second \in KeyedMessages, relay \in Nodes :
          call = [op |-> "input",
                  arg |-> [first |-> first, second |-> second, relay |-> relay],
                  result |-> <<>>]

NextKey == UniqueTuples

SpecKey == InitKey /\ [][NextKey]_vars

(* C36: the dedup key of a message is (origin, seqno, operation), and for   *)
(* SEARCH it also holds the search mode: two SEARCH messages with the same  *)
(* origin and seqno but different modes have different keys, while a SEARCH *)
(* message and every forwarded copy of it (any ttl, hop-count or relay      *)
(* port) have the same key.                                                 *)
C36_DedupKey ==
    call.op = "to_unique_tuple"
        => LET a == call.arg.first
               b == call.arg.second
           IN  /\ call.result.first[1] = a.origin
               /\ call.result.first[2] = a.seqno
               /\ call.result.first[3][1] = a.operation
               /\ a.operation # "SEARCH" => Len(call.result.first[3]) = 1
               /\ a.operation = "SEARCH" => call.result.first[3] = <<"SEARCH", a.args[1]>>
               /\ (/\ a.operation = "SEARCH" /\ b.operation = "SEARCH"
                   /\ a.origin = b.origin /\ a.seqno = b.seqno
                   /\ a.args[1] # b.args[1])
                     => call.result.first # call.result.second
               /\ (/\ a.operation = "SEARCH" /\ b.operation = "SEARCH"
                   /\ a.origin = b.origin /\ a.seqno = b.seqno
                   /\ a.args[1] = b.args[1])
                     => call.result.first = call.result.second
               /\ call.result.forwarded = call.result.first

\* two searches of one origin and seqno in different modes got different
\* keys, and the first one's forwarded copy, with another ttl, relay port
\* and hop-count, got the key of the first
C36_Witness ==
    /\ call.op = "to_unique_tuple"
    /\ call.arg.first.operation = "SEARCH"
    /\ call.arg.second.operation = "SEARCH"
    /\ call.arg.first.origin = call.arg.second.origin
    /\ call.arg.first.seqno = call.arg.second.seqno
    /\ call.arg.first.args[1] = "FL"
    /\ call.arg.second.args[1] = "BP"
    /\ call.result.first # call.result.second
    /\ call.result.copy.ttl # call.arg.first.ttl
    /\ call.result.copy.args[2] # call.arg.first.args[2]
    /\ call.result.copy.args[4] # call.arg.first.args[4]
    /\ call.result.forwarded = call.result.first

-----------------------------------------------------------------------------
(* ttl and hop-count of the transmitted searches *)

\* the relays a whose transmission w.src received and forwarded as w: the
\* same search with one hop less and one ttl more
ForwardedFrom(w) ==
    {a \in Nodes :
        [src |-> a, dst |-> w.src,
         msg |-> [w.msg EXCEPT !.ttl = @ + 1,
                               !.args = <<w.msg.args[1], a, w.msg.args[3],
                                          w.msg.args[4] - 1>>]] \in DOMAIN wire}

\* the relays that transmitted message m to node n
TransmittedBy(n, m) == {a \in Nodes : [src |-> a, dst |-> n, msg |-> m] \in DOMAIN wire}

(* C37: every SEARCH ever transmitted, in any mode, has ttl + hop-count     *)
(* equal to the originator's initial ttl + 1: each hop, bounces and         *)
(* backtracks included, takes one from ttl and adds one to hop-count, so    *)
(* the hop-count a VAL reply carries is the number of transmissions the     *)
(* search made to reach the key holder.                                     *)
C37_TTLPlusHops ==
    /\ [](\A w \in DOMAIN wire : w.msg.operation = "SEARCH" =>
            /\ w.msg.ttl + w.msg.args[4] = default_ttl[w.msg.origin] + FirstHop
            /\ w.msg.args[2] = w.src
            /\ IF w.msg.args[4] = FirstHop
               THEN w.src = w.msg.origin
               ELSE ForwardedFrom(w) # {})
    /\ [][(out'.signal = "value" /\ \E mode \in Modes : HandledSearch(mode))
                => /\ Len(out'.sent) = 1
                   /\ out'.sent[1].msg.operation = "VAL"
                   /\ out'.sent[1].msg.args[4] = out'.msg.args[4]
                   /\ out'.msg.args[4] =
                         default_ttl[out'.msg.origin] + FirstHop - out'.msg.ttl
                   /\ TransmittedBy(out'.node, out'.msg) # {}]_vars

\* a depth-first search went to a leaf, came back to its origin and then
\* reached the holder, a neighbour of the origin: the VAL carries 3
C37_Witness ==
    /\ out.signal = "value"
    /\ out.msg.args[1] = "BP"
    /\ LastHop(out.msg) = out.msg.origin
    /\ out.msg.args[4] = 3
    /\ out.msg.ttl = default_ttl[out.msg.origin] - 2
    /\ out.sent[1].msg.operation = "VAL"
    /\ out.sent[1].msg.args[4] = 3

-----------------------------------------------------------------------------
(* The message of a depth-first search of Peer *)

\* the undelivered transmissions of search id
Undelivered(id) ==
    {p \in InFlight("SEARCH") : to_unique_tuple(p.msg) = id}

(* C38: during one depth-first search of Peer with reliable delivery at     *)
(* most one SEARCH of that search is in flight or being processed at any    *)
(* time: every handling of the message sends at most one SEARCH, and the    *)
(* originator sends exactly one when it starts the search.                  *)
C38_SingleDepthMessage ==
    /\ [](impl = "Peer" =>
            \A id \in DepthIds :
                /\ Cardinality(Undelivered(id)) <= 1
                /\ \A p \in Undelivered(id) : CopiesIn(p, net) = 1)
    /\ [][(impl = "Peer" /\ HandledSearch("BP"))
            => /\ Len(out'.sent) <= 1
               /\ \A id \in DepthIds : Undelivered(id)' # {} => Undelivered(id) # {}]_vars
    /\ [][(/\ impl = "Peer"
           /\ started' # started
           /\ out'.msg.operation = "SEARCH"
           /\ out'.msg.args[1] = "BP")
            => /\ Len(out'.sent) = 1
               /\ out'.sent[1].msg = out'.msg]_vars

=============================================================================
